---------------------------- MODULE Spec2Model ----------------------------
(***************************************************************************)
(* A model of simple-text-editor.c: the row store, the syntax highlighter, *)
(* the editing operations, the scroll engine, the modal prompt, the        *)
(* incremental search, save/open and the controller loop.                  *)
(*                                                                         *)
(* Bytes are their ASCII codes; a C string / byte buffer is a sequence of  *)
(* codes.  C arrays are 0-based: At(s, i) is s[i] of the C code.           *)
(***************************************************************************)
EXTENDS Integers, Sequences, FiniteSets, TLC

(***************************************************************************)
(* Program constants                                                       *)
(***************************************************************************)
TAB_STOP_LENGTH == 8
CONFIRM_QUIT_TIMES == 3

BACKSPACE == 127
ARROW_LEFT == 1000
ARROW_RIGHT == 1001
ARROW_UP == 1002
ARROW_DOWN == 1003
PAGE_UP == 1004
PAGE_DOWN == 1005
HOME_KEY == 1006
END_KEY == 1007
DEL_KEY == 1008

HL_NORMAL == 0
HL_STRING == 1
HL_COMMENT == 2
HL_MLCOMMENT == 3
HL_KEYWORD1 == 4
HL_KEYWORD2 == 5
HL_NUMBER == 6
HL_MATCH == 7

\* Bytes the code names as character literals
TAB == 9
LF == 10
CR == 13
ESC == 27
SPACE == 32
DQUOTE == 34
SQUOTE == 39
DOT == 46
BACKSLASH == 92
PIPE == 124

\* CTRL_KEY(k) == k & 0x1f
CTRL_F == 6
CTRL_H == 8
CTRL_L == 12
CTRL_Q == 17
CTRL_S == 19

\* A NULL char pointer (no byte string has a negative element)
NULL == << -1 >>

At(s, i) == s[i + 1]

\* n copies of v
Fill(n, v) == [k \in 1..n |-> v]

\* memset(&s[i], v, n), clipped to the array as a correct call is
MemSet(s, i, v, n) == [k \in 1..Len(s) |-> IF k > i /\ k <= i + n THEN v ELSE s[k]]

\* !strncmp(&s[i], p, Len(p)) for a NUL-terminated s and a NUL-free p
MatchAt(s, i, p) ==
    /\ i + Len(p) <= Len(s)
    /\ \A k \in 1..Len(p) : s[i + k] = p[k]

\* strstr(s, q): the 0-based offset of the first occurrence, -1 for NULL
StrStr(s, q) ==
    LET hits == {i \in 0..Len(s) : MatchAt(s, i, q)}
    IN  IF hits = {} THEN -1 ELSE CHOOSE i \in hits : \A j \in hits : i <= j

isspace(c) == c \in {9, 10, 11, 12, 13, 32}
isdigit(c) == c >= 48 /\ c <= 57
iscntrl(c) == (c >= 0 /\ c <= 31) \/ c = 127

(***************************************************************************)
(* filetypes                                                               *)
(***************************************************************************)
C_HL_extensions == <<
    << 46, 99 >>,           \* ".c"
    << 46, 104 >>,          \* ".h"
    << 46, 99, 112, 112 >>  \* ".cpp"
    >>

C_HL_keywords == <<
    << 115, 119, 105, 116, 99, 104 >>,           \* "switch"
    << 105, 102 >>,                              \* "if"
    << 119, 104, 105, 108, 101 >>,               \* "while"
    << 102, 111, 114 >>,                         \* "for"
    << 98, 114, 101, 97, 107 >>,                 \* "break"
    << 99, 111, 110, 116, 105, 110, 117, 101 >>, \* "continue"
    << 114, 101, 116, 117, 114, 110 >>,          \* "return"
    << 101, 108, 115, 101 >>,                    \* "else"
    << 115, 116, 114, 117, 99, 116 >>,           \* "struct"
    << 117, 110, 105, 111, 110 >>,               \* "union"
    << 116, 121, 112, 101, 100, 101, 102 >>,     \* "typedef"
    << 115, 116, 97, 116, 105, 99 >>,            \* "static"
    << 101, 110, 117, 109 >>,                    \* "enum"
    << 99, 108, 97, 115, 115 >>,                 \* "class"
    << 99, 97, 115, 101 >>,                      \* "case"
    << 105, 110, 116, 124 >>,                    \* "int|"
    << 108, 111, 110, 103, 124 >>,               \* "long|"
    << 100, 111, 117, 98, 108, 101, 124 >>,      \* "double|"
    << 102, 108, 111, 97, 116, 124 >>,           \* "float|"
    << 99, 104, 97, 114, 124 >>,                 \* "char|"
    << 117, 110, 115, 105, 103, 110, 101, 100, 124 >>, \* "unsigned|"
    << 115, 105, 103, 110, 101, 100, 124 >>,     \* "signed|"
    << 118, 111, 105, 100, 124 >>                \* "void|"
    >>

\* The highlight database: one entry, C.  flags: numbers and strings.
HLDB == <<
    [ filetype |-> "c",
      filematch |-> C_HL_extensions,
      keywords |-> C_HL_keywords,
      singleline_comment_start |-> << 47, 47 >>,  \* "//"
      multiline_comment_start |-> << 47, 42 >>,   \* "/*"
      multiline_comment_end |-> << 42, 47 >>,     \* "*/"
      highlight_numbers |-> TRUE,
      highlight_strings |-> TRUE ]
    >>

\* E.syntax is 0 for NULL, else the 1-based entry of HLDB it points to
NOSYNTAX == 0

(***************************************************************************)
(* syntax highlighting                                                     *)
(***************************************************************************)
\* strchr(",.()+-/*=~%<>[];", c) != NULL, isspace(c), or the NUL byte
is_separator(c) ==
    \/ isspace(c)
    \/ c = 0
    \/ c \in {44, 46, 40, 41, 43, 45, 47, 42, 61, 126, 37, 60, 62, 91, 93, 59}

\* klen: the length of a keyword, without the '|' that marks a secondary one
KeywordLen(k) == IF k[Len(k)] = PIPE THEN Len(k) - 1 ELSE Len(k)

\* The first keyword (1-based place in kws) matching at render[i] and followed
\* by a separator (the terminating NUL counts); 0 when the loop runs to NULL.
KeywordAt(render, i, kws) ==
    LET klen(j) == KeywordLen(kws[j])
        ok(j) == /\ MatchAt(render, i, SubSeq(kws[j], 1, klen(j)))
                 /\ (i + klen(j) = Len(render) \/ is_separator(At(render, i + klen(j))))
        hits == {j \in 1..Len(kws) : ok(j)}
    IN  IF hits = {} THEN 0 ELSE CHOOSE j \in hits : \A k \in hits : j <= k

\* The while loop of editorUpdateSyntax from position i on.
\* st: [hl, prev_sep, in_string, in_comment]; returns the final st.
RECURSIVE ScanRow(_, _, _, _)
ScanRow(syn, render, i, st) ==
    IF i >= Len(render) THEN st
    ELSE
    LET c == At(render, i)
        prev_hl == IF i > 0 THEN At(st.hl, i - 1) ELSE HL_NORMAL
        scs == syn.singleline_comment_start
        mcs == syn.multiline_comment_start
        mce == syn.multiline_comment_end
        \* the keyword loop found keyword kw (0: none) at i
        keyword(kw) ==
            IF kw # 0
            THEN ScanRow(syn, render, i + KeywordLen(syn.keywords[kw]),
                         [st EXCEPT !.hl = MemSet(st.hl, i,
                                                  IF KeywordLen(syn.keywords[kw])
                                                         < Len(syn.keywords[kw])
                                                  THEN HL_KEYWORD2 ELSE HL_KEYWORD1,
                                                  KeywordLen(syn.keywords[kw])),
                                    !.prev_sep = FALSE])
            ELSE ScanRow(syn, render, i + 1, [st EXCEPT !.prev_sep = is_separator(c)])
    IN
    IF Len(scs) > 0 /\ st.in_string = 0 /\ ~st.in_comment /\ MatchAt(render, i, scs)
    THEN [st EXCEPT !.hl = MemSet(st.hl, i, HL_COMMENT, Len(render) - i)]
    ELSE IF Len(mcs) > 0 /\ Len(mce) > 0 /\ st.in_string = 0 /\ st.in_comment
    THEN IF MatchAt(render, i, mce)
         THEN ScanRow(syn, render, i + Len(mce),
                      [st EXCEPT !.hl = MemSet(st.hl, i, HL_MLCOMMENT, Len(mce)),
                                 !.in_comment = FALSE, !.prev_sep = TRUE])
         ELSE ScanRow(syn, render, i + 1,
                      [st EXCEPT !.hl = MemSet(st.hl, i, HL_MLCOMMENT, 1)])
    ELSE IF Len(mcs) > 0 /\ Len(mce) > 0 /\ st.in_string = 0 /\ MatchAt(render, i, mcs)
    THEN ScanRow(syn, render, i + Len(mcs),
                 [st EXCEPT !.hl = MemSet(st.hl, i, HL_MLCOMMENT, Len(mcs)),
                            !.in_comment = TRUE])
    ELSE IF syn.highlight_strings /\ st.in_string # 0
    THEN IF c = BACKSLASH /\ i + 1 < Len(render)
         THEN ScanRow(syn, render, i + 2,
                      [st EXCEPT !.hl = MemSet(st.hl, i, HL_STRING, 2)])
         ELSE ScanRow(syn, render, i + 1,
                      [st EXCEPT !.hl = MemSet(st.hl, i, HL_STRING, 1),
                                 !.in_string = IF c = st.in_string THEN 0 ELSE st.in_string,
                                 !.prev_sep = TRUE])
    ELSE IF syn.highlight_strings /\ (c = DQUOTE \/ c = SQUOTE)
    THEN ScanRow(syn, render, i + 1,
                 [st EXCEPT !.hl = MemSet(st.hl, i, HL_STRING, 1), !.in_string = c])
    ELSE IF /\ syn.highlight_numbers
            /\ \/ (isdigit(c) /\ (st.prev_sep \/ prev_hl = HL_NUMBER))
               \/ (c = DOT /\ prev_hl = HL_NUMBER)
    THEN ScanRow(syn, render, i + 1,
                 [st EXCEPT !.hl = MemSet(st.hl, i, HL_NUMBER, 1), !.prev_sep = FALSE])
    ELSE keyword(IF st.prev_sep THEN KeywordAt(render, i, syn.keywords) ELSE 0)

\* editorUpdateSyntax without the call on the next row
UpdateSyntaxOneRow(E, at) ==
    LET row == At(E.row, at)
        blank == Fill(Len(row.render), HL_NORMAL)
        in0 == row.idx > 0 /\ At(E.row, row.idx - 1).hl_open_comment
        finish(st) == [E EXCEPT !.row[at + 1].hl = st.hl,
                                !.row[at + 1].hl_open_comment = st.in_comment]
    IN  IF E.syntax = NOSYNTAX
        THEN [E EXCEPT !.row[at + 1].hl = blank]
        ELSE finish(ScanRow(HLDB[E.syntax], row.render, 0,
                            [hl |-> blank, prev_sep |-> TRUE, in_string |-> 0,
                             in_comment |-> in0]))

\* editorUpdateSyntax that starts every row outside a comment
RECURSIVE UpdateSyntaxFresh(_, _)
UpdateSyntaxFresh(E, at) ==
    LET row == At(E.row, at)
        blank == Fill(Len(row.render), HL_NORMAL)
    IN
    IF E.syntax = NOSYNTAX
    THEN [E EXCEPT !.row[at + 1].hl = blank]
    ELSE
    LET finish(st) ==
            LET changed == row.hl_open_comment # st.in_comment
                E1 == [E EXCEPT !.row[at + 1].hl = st.hl,
                                !.row[at + 1].hl_open_comment = st.in_comment]
            IN  IF changed /\ row.idx + 1 < E.numrows
                THEN UpdateSyntaxFresh(E1, row.idx + 1)
                ELSE E1
    IN  finish(ScanRow(HLDB[E.syntax], row.render, 0,
                       [hl |-> blank, prev_sep |-> TRUE, in_string |-> 0,
                        in_comment |-> FALSE]))

\* editorUpdateSyntax(&E.row[at]): highlight row at, then the rows after it
\* while hl_open_comment keeps changing.  The next row is found through
\* row->idx and the guard reads E.numrows as it is at the time of the call.
RECURSIVE editorUpdateSyntax(_, _)
editorUpdateSyntax(E, at) ==
    LET row == At(E.row, at)
        blank == Fill(Len(row.render), HL_NORMAL)
    IN
    IF E.syntax = NOSYNTAX
    THEN [E EXCEPT !.row[at + 1].hl = blank]
    ELSE
    LET in0 == row.idx > 0 /\ At(E.row, row.idx - 1).hl_open_comment
        \* the code after the scan, which ended in st
        finish(st) ==
            LET changed == row.hl_open_comment # st.in_comment
                E1 == [E EXCEPT !.row[at + 1].hl = st.hl,
                                !.row[at + 1].hl_open_comment = st.in_comment]
            IN  IF changed /\ row.idx + 1 < E.numrows
                THEN editorUpdateSyntax(E1, row.idx + 1)
                ELSE E1
    IN  finish(ScanRow(HLDB[E.syntax], row.render, 0,
                       [hl |-> blank, prev_sep |-> TRUE, in_string |-> 0,
                        in_comment |-> in0]))

(***************************************************************************)
(* row operations                                                          *)
(***************************************************************************)
\* The rx after the first cx bytes of chars
RECURSIVE CxToRxFrom(_, _, _, _)
CxToRxFrom(chars, cx, j, rx) ==
    IF j >= cx THEN rx
    ELSE CxToRxFrom(chars, cx, j + 1,
                    IF At(chars, j) = TAB
                    THEN rx + (TAB_STOP_LENGTH - 1) - (rx % TAB_STOP_LENGTH) + 1
                    ELSE rx + 1)

editorRowCxToRx(row, cx) == CxToRxFrom(row.chars, cx, 0, 0)

RECURSIVE RxToCxFrom(_, _, _, _)
RxToCxFrom(chars, rx, cx, cur_rx) ==
    IF cx >= Len(chars) THEN cx
    ELSE LET nxt == IF At(chars, cx) = TAB
                    THEN cur_rx + (TAB_STOP_LENGTH - 1) - (cur_rx % TAB_STOP_LENGTH) + 1
                    ELSE cur_rx + 1
         IN  IF nxt > rx THEN cx ELSE RxToCxFrom(chars, rx, cx + 1, nxt)

\* editorRowRxToCx taking the rendered column for the raw one
RxAsCx(row, rx) == IF rx > Len(row.chars) THEN Len(row.chars) ELSE rx

editorRowRxToCx(row, rx) == RxToCxFrom(row.chars, rx, 0, 0)

\* The copy loop of editorUpdateRow with TAB_STOP_LENGTH spaces for every tab
RECURSIVE RenderWide(_, _, _)
RenderWide(chars, j, out) ==
    IF j >= Len(chars) THEN out
    ELSE IF At(chars, j) = TAB
         THEN RenderWide(chars, j + 1, out \o Fill(TAB_STOP_LENGTH, SPACE))
         ELSE RenderWide(chars, j + 1, Append(out, At(chars, j)))

\* The copy loop of editorUpdateRow: render of chars[j..], appended to out
RECURSIVE RenderFrom(_, _, _)
RenderFrom(chars, j, out) ==
    IF j >= Len(chars) THEN out
    ELSE IF At(chars, j) = TAB
         THEN LET one == Append(out, SPACE)
                  pad == (TAB_STOP_LENGTH - (Len(one) % TAB_STOP_LENGTH)) % TAB_STOP_LENGTH
              IN  RenderFrom(chars, j + 1, one \o Fill(pad, SPACE))
         ELSE RenderFrom(chars, j + 1, Append(out, At(chars, j)))

\* editorUpdateRow without its closing editorUpdateSyntax(row)
UpdateRowNoSyntax(E, at) ==
    [E EXCEPT !.row[at + 1].render = RenderFrom(At(E.row, at).chars, 0, << >>)]

\* editorUpdateRow(&E.row[at])
editorUpdateRow(E, at) ==
    editorUpdateSyntax(
        [E EXCEPT !.row[at + 1].render = RenderFrom(At(E.row, at).chars, 0, << >>)], at)

\* editorInsertRow without its E.dirty++
InsertRowClean(E, at, s) ==
    IF at < 0 \/ at > E.numrows THEN E
    ELSE
    LET new == [idx |-> at, chars |-> s, render |-> << >>, hl |-> << >>,
                hl_open_comment |-> FALSE]
        shifted == [k \in 1..(E.numrows + 1) |->
                      IF k <= at THEN E.row[k]
                      ELSE IF k = at + 1 THEN new
                      ELSE [E.row[k - 1] EXCEPT !.idx = @ + 1]]
        E1 == editorUpdateRow([E EXCEPT !.row = shifted], at)
    IN  [E1 EXCEPT !.numrows = @ + 1]

\* editorInsertRow that appends the row when at is no index of the document
InsertRowClamps(E, at, s) ==
    LET a == IF at < 0 \/ at > E.numrows THEN E.numrows ELSE at
        new == [idx |-> a, chars |-> s, render |-> << >>, hl |-> << >>,
                hl_open_comment |-> FALSE]
        shifted == [k \in 1..(E.numrows + 1) |->
                      IF k <= a THEN E.row[k]
                      ELSE IF k = a + 1 THEN new
                      ELSE [E.row[k - 1] EXCEPT !.idx = @ + 1]]
        E1 == editorUpdateRow([E EXCEPT !.row = shifted], a)
    IN  [E1 EXCEPT !.numrows = @ + 1, !.dirty = @ + 1]

\* editorInsertRow(at, s, len)
editorInsertRow(E, at, s) ==
    IF at < 0 \/ at > E.numrows THEN E
    ELSE
    LET new == [idx |-> at, chars |-> s, render |-> << >>, hl |-> << >>,
                hl_open_comment |-> FALSE]
        shifted == [k \in 1..(E.numrows + 1) |->
                      IF k <= at THEN E.row[k]
                      ELSE IF k = at + 1 THEN new
                      ELSE [E.row[k - 1] EXCEPT !.idx = @ + 1]]
        E1 == editorUpdateRow([E EXCEPT !.row = shifted], at)
    IN  [E1 EXCEPT !.numrows = @ + 1, !.dirty = @ + 1]

\* editorDelRow without the idx-- of the rows behind the deleted one
DelRowKeepIdx(E, at) ==
    IF at < 0 \/ at >= E.numrows THEN E
    ELSE
    LET shifted == [k \in 1..(E.numrows - 1) |->
                      IF k <= at THEN E.row[k] ELSE E.row[k + 1]]
    IN  [E EXCEPT !.row = shifted, !.numrows = @ - 1, !.dirty = @ + 1]

\* editorDelRow(at)
editorDelRow(E, at) ==
    IF at < 0 \/ at >= E.numrows THEN E
    ELSE
    LET shifted == [k \in 1..(E.numrows - 1) |->
                      IF k <= at THEN E.row[k]
                      ELSE [E.row[k + 1] EXCEPT !.idx = @ - 1]]
    IN  [E EXCEPT !.row = shifted, !.numrows = @ - 1, !.dirty = @ + 1]

\* editorRowInsertChar without its E.dirty++
RowInsertCharClean(E, r, at, c) ==
    LET chars == At(E.row, r).chars
        a == IF at < 0 \/ at > Len(chars) THEN Len(chars) ELSE at
        ins == SubSeq(chars, 1, a) \o << c >> \o SubSeq(chars, a + 1, Len(chars))
    IN  editorUpdateRow([E EXCEPT !.row[r + 1].chars = ins], r)

\* editorRowInsertChar(&E.row[r], at, c)
editorRowInsertChar(E, r, at, c) ==
    LET chars == At(E.row, r).chars
        a == IF at < 0 \/ at > Len(chars) THEN Len(chars) ELSE at
        ins == SubSeq(chars, 1, a) \o << c >> \o SubSeq(chars, a + 1, Len(chars))
        E1 == editorUpdateRow([E EXCEPT !.row[r + 1].chars = ins], r)
    IN  [E1 EXCEPT !.dirty = @ + 1]

\* editorRowAppendString(&E.row[r], s, len)
editorRowAppendString(E, r, s) ==
    LET E1 == editorUpdateRow([E EXCEPT !.row[r + 1].chars = @ \o s], r)
    IN  [E1 EXCEPT !.dirty = @ + 1]

\* editorRowDelChar without its E.dirty++
RowDelCharClean(E, r, at) ==
    LET chars == At(E.row, r).chars
    IN  IF at < 0 \/ at >= Len(chars) THEN E
        ELSE editorUpdateRow(
                 [E EXCEPT !.row[r + 1].chars =
                               SubSeq(chars, 1, at) \o SubSeq(chars, at + 2, Len(chars))], r)

\* editorRowDelChar(&E.row[r], at)
editorRowDelChar(E, r, at) ==
    LET chars == At(E.row, r).chars
    IN  IF at < 0 \/ at >= Len(chars) THEN E
        ELSE LET del == SubSeq(chars, 1, at) \o SubSeq(chars, at + 2, Len(chars))
                 E1 == editorUpdateRow([E EXCEPT !.row[r + 1].chars = del], r)
             IN  [E1 EXCEPT !.dirty = @ + 1]

(***************************************************************************)
(* editor operations                                                       *)
(***************************************************************************)
\* editorInsertChar without its E.cx++
InsertCharStays(E, c) ==
    LET insert(E1) == editorRowInsertChar(E1, E1.cy, E1.cx, c)
    IN  insert(IF E.cy = E.numrows THEN editorInsertRow(E, E.numrows, << >>) ELSE E)

editorInsertChar(E, c) ==
    LET insert(E1) == [editorRowInsertChar(E1, E1.cy, E1.cx, c) EXCEPT !.cx = @ + 1]
    IN  insert(IF E.cy = E.numrows THEN editorInsertRow(E, E.numrows, << >>) ELSE E)

\* editorInsertNewline without the cut of row cy behind cx
NewlineKeepsRow(E) ==
    LET E1 == IF E.cx = 0
              THEN editorInsertRow(E, E.cy, << >>)
              ELSE LET chars == At(E.row, E.cy).chars
                   IN  editorInsertRow(E, E.cy + 1, SubSeq(chars, E.cx + 1, Len(chars)))
    IN  [E1 EXCEPT !.cy = @ + 1, !.cx = 0]

editorInsertNewline(E) ==
    LET E1 == IF E.cx = 0
              THEN editorInsertRow(E, E.cy, << >>)
              ELSE LET chars == At(E.row, E.cy).chars
                       Ei == editorInsertRow(E, E.cy + 1, SubSeq(chars, E.cx + 1, Len(chars)))
                   IN  editorUpdateRow(
                           [Ei EXCEPT !.row[E.cy + 1].chars = SubSeq(@, 1, E.cx)], E.cy)
    IN  [E1 EXCEPT !.cy = @ + 1, !.cx = 0]

\* editorDelChar without E.cx = E.row[E.cy - 1].size before the join
DelCharJoinsAtCx(E) ==
    IF E.cy = E.numrows THEN E
    ELSE IF E.cx = 0 /\ E.cy = 0 THEN E
    ELSE IF E.cx > 0
    THEN [editorRowDelChar(E, E.cy, E.cx - 1) EXCEPT !.cx = @ - 1]
    ELSE LET E2 == editorRowAppendString(E, E.cy - 1, At(E.row, E.cy).chars)
             E3 == editorDelRow(E2, E.cy)
         IN  [E3 EXCEPT !.cy = @ - 1]

\* editorDelChar without editorDelRow(E.cy) after the join
DelCharKeepsRow(E) ==
    IF E.cy = E.numrows THEN E
    ELSE IF E.cx = 0 /\ E.cy = 0 THEN E
    ELSE IF E.cx > 0
    THEN [editorRowDelChar(E, E.cy, E.cx - 1) EXCEPT !.cx = @ - 1]
    ELSE LET E1 == [E EXCEPT !.cx = Len(At(E.row, E.cy - 1).chars)]
             E2 == editorRowAppendString(E1, E.cy - 1, At(E.row, E.cy).chars)
         IN  [E2 EXCEPT !.cy = @ - 1]

\* editorDelChar with row 0 deleted by a Backspace at (0, 0)
DelCharAtOrigin(E) ==
    IF E.cy = E.numrows THEN E
    ELSE IF E.cx = 0 /\ E.cy = 0 THEN editorDelRow(E, 0)
    ELSE IF E.cx > 0
    THEN [editorRowDelChar(E, E.cy, E.cx - 1) EXCEPT !.cx = @ - 1]
    ELSE LET E1 == [E EXCEPT !.cx = Len(At(E.row, E.cy - 1).chars)]
             E2 == editorRowAppendString(E1, E.cy - 1, At(E.row, E.cy).chars)
             E3 == editorDelRow(E2, E.cy)
         IN  [E3 EXCEPT !.cy = @ - 1]

editorDelChar(E) ==
    IF E.cy = E.numrows THEN E
    ELSE IF E.cx = 0 /\ E.cy = 0 THEN E
    ELSE IF E.cx > 0
    THEN [editorRowDelChar(E, E.cy, E.cx - 1) EXCEPT !.cx = @ - 1]
    ELSE LET E1 == [E EXCEPT !.cx = Len(At(E.row, E.cy - 1).chars)]
             \* row->chars is read before the append can touch the row array
             E2 == editorRowAppendString(E1, E.cy - 1, At(E.row, E.cy).chars)
             E3 == editorDelRow(E2, E.cy)
         IN  [E3 EXCEPT !.cy = @ - 1]

(***************************************************************************)
(* file i/o                                                                *)
(***************************************************************************)
\* The raw bytes of every row, in order: the document
Document(E) == [k \in 1..Len(E.row) |-> E.row[k].chars]

\* editorRowsToString: every row's bytes followed by one '\n'
RECURSIVE RowsToStringFrom(_, _)
RowsToStringFrom(E, j) ==
    IF j >= E.numrows THEN << >>
    ELSE At(E.row, j).chars \o << LF >> \o RowsToStringFrom(E, j + 1)

\* editorRowsToString with the '\n' between the rows only, none after the last
RECURSIVE RowsJoinedFrom(_, _)
RowsJoinedFrom(E, j) ==
    IF j >= E.numrows THEN << >>
    ELSE IF j = E.numrows - 1 THEN At(E.row, j).chars
    ELSE At(E.row, j).chars \o << LF >> \o RowsJoinedFrom(E, j + 1)

RowsJoined(E) == RowsJoinedFrom(E, 0)

editorRowsToString(E) == RowsToStringFrom(E, 0)

\* getline(): the bytes up to and including the first '\n' (all, if none)
GetLine(bytes) ==
    LET nl == {k \in 1..Len(bytes) : bytes[k] = LF}
    IN  IF nl = {} THEN bytes
        ELSE SubSeq(bytes, 1, CHOOSE k \in nl : \A m \in nl : k <= m)

\* while (linelen > 0 && (line[linelen-1] == '\n' || line[linelen-1] == '\r')) linelen--
RECURSIVE StripEol(_)
StripEol(line) ==
    IF Len(line) > 0 /\ (line[Len(line)] = LF \/ line[Len(line)] = CR)
    THEN StripEol(SubSeq(line, 1, Len(line) - 1))
    ELSE line

\* The getline loop of editorOpen over the unread bytes of the file
RECURSIVE ReadLines(_, _)
ReadLines(E, bytes) ==
    IF bytes = << >> THEN E
    ELSE LET line == GetLine(bytes)
         IN  ReadLines(editorInsertRow(E, E.numrows, StripEol(line)),
                       SubSeq(bytes, Len(line) + 1, Len(bytes)))

\* strrchr(name, '.'): the suffix from the last '.', NULL when there is none
Extension(name) ==
    LET dots == {k \in 1..Len(name) : name[k] = DOT}
    IN  IF dots = {} THEN NULL
        ELSE SubSeq(name, CHOOSE k \in dots : \A m \in dots : k >= m, Len(name))

\* Whether a filematch pattern selects the file name
FileMatches(name, pat) ==
    LET is_ext == pat[1] = DOT
        ext == Extension(name)
    IN  \/ (is_ext /\ ext # NULL /\ ext = pat)
        \/ (~is_ext /\ StrStr(name, pat) # -1)

\* for (filerow = 0; filerow < E.numrows; filerow++) editorUpdateSyntax(&E.row[filerow])
RECURSIVE RehighlightFrom(_, _)
RehighlightFrom(E, filerow) ==
    IF filerow >= E.numrows THEN E
    ELSE RehighlightFrom(editorUpdateSyntax(E, filerow), filerow + 1)

editorSelectSyntaxHighlight(E) ==
    LET E0 == [E EXCEPT !.syntax = NOSYNTAX]
        hits == {j \in 1..Len(HLDB) :
                    \E i \in 1..Len(HLDB[j].filematch) :
                        FileMatches(E.filename, HLDB[j].filematch[i])}
    IN  IF E.filename = NULL \/ hits = {} THEN E0
        ELSE RehighlightFrom(
                 [E0 EXCEPT !.syntax = CHOOSE j \in hits : \A k \in hits : j <= k], 0)

\* editorOpen without its E.dirty = 0
OpenKeepsDirty(E, filename, bytes) ==
    ReadLines(editorSelectSyntaxHighlight([E EXCEPT !.filename = filename]), bytes)

\* editorOpen(filename) on a file that fopen() opens, holding bytes
editorOpen(E, filename, bytes) ==
    LET E1 == editorSelectSyntaxHighlight([E EXCEPT !.filename = filename])
        E2 == ReadLines(E1, bytes)
    IN  [E2 EXCEPT !.dirty = 0]

\* An editorSave() that takes the document for saved whatever the calls do
SaveClearsDirty(E, io) ==
    [E EXCEPT !.dirty = 0,
              !.statusmsg = IF io = "ok"
                            THEN << "bytes written to disk", Len(editorRowsToString(E)) >>
                            ELSE << "Can't save! I/O error", io >>]

\* editorSave() from editorRowsToString on; io is what the system calls do:
\* "ok", or the call that fails ("open", "ftruncate", "write")
SaveToDisk(E, io) ==
    IF io = "ok"
    THEN [E EXCEPT !.dirty = 0,
                   !.statusmsg = << "bytes written to disk", Len(editorRowsToString(E)) >>]
    ELSE [E EXCEPT !.statusmsg = << "Can't save! I/O error", io >>]

(***************************************************************************)
(* find                                                                    *)
(***************************************************************************)
\* The for loop of editorFindCallback with a message when no row matched
RECURSIVE FindLoopReports(_, _, _, _)
FindLoopReports(S, query, current, i) ==
    IF i >= S.E.numrows THEN [S EXCEPT !.E.statusmsg = << "Not found" >>]
    ELSE
    LET moved == current + S.F.direction
        cur == IF moved = -1 THEN S.E.numrows - 1
               ELSE IF moved = S.E.numrows THEN 0 ELSE moved
        row == At(S.E.row, cur)
        match == StrStr(row.render, query)
    IN  IF match # -1
        THEN [E |-> [S.E EXCEPT !.cy = cur,
                                !.cx = editorRowRxToCx(row, match),
                                !.rowoff = S.E.numrows,
                                !.row[cur + 1].hl = MemSet(row.hl, match, HL_MATCH, Len(query))],
              F |-> [S.F EXCEPT !.last_match = cur,
                                !.saved_hl_line = cur,
                                !.saved_hl = row.hl]]
        ELSE FindLoopReports(S, query, cur, i + 1)

\* The for loop of editorFindCallback: i rows tried so far, current the last.
\* F: [last_match, direction, saved_hl_line, saved_hl]; S: [E, F]
RECURSIVE FindLoop(_, _, _, _)
FindLoop(S, query, current, i) ==
    IF i >= S.E.numrows THEN S
    ELSE
    LET moved == current + S.F.direction
        cur == IF moved = -1 THEN S.E.numrows - 1
               ELSE IF moved = S.E.numrows THEN 0 ELSE moved
        row == At(S.E.row, cur)
        match == StrStr(row.render, query)
    IN  IF match # -1
        THEN [E |-> [S.E EXCEPT !.cy = cur,
                                !.cx = editorRowRxToCx(row, match),
                                !.rowoff = S.E.numrows,
                                !.row[cur + 1].hl = MemSet(row.hl, match, HL_MATCH, Len(query))],
              F |-> [S.F EXCEPT !.last_match = cur,
                                !.saved_hl_line = cur,
                                !.saved_hl = row.hl]]
        ELSE FindLoop(S, query, cur, i + 1)

\* editorFindCallback searching from the first row whatever the key
FindFromTop(S, query, key) ==
    LET restored ==
            IF S.F.saved_hl # NULL
            THEN [E |-> [S.E EXCEPT !.row[S.F.saved_hl_line + 1].hl = S.F.saved_hl],
                  F |-> [S.F EXCEPT !.saved_hl = NULL]]
            ELSE S
    IN  IF key = CR \/ key = ESC
        THEN [restored EXCEPT !.F.last_match = -1, !.F.direction = 1]
        ELSE FindLoop([restored EXCEPT !.F.last_match = -1, !.F.direction = 1],
                      query, -1, 0)

\* editorFindCallback without the memcpy of saved_hl back into its row
FindKeepsTags(S, query, key) ==
    LET F0 == [S.F EXCEPT !.saved_hl = NULL]
    IN  IF key = CR \/ key = ESC
        THEN [S EXCEPT !.F = [F0 EXCEPT !.last_match = -1, !.direction = 1]]
        ELSE
        LET F1 == IF key = ARROW_RIGHT \/ key = ARROW_DOWN THEN [F0 EXCEPT !.direction = 1]
                  ELSE IF key = ARROW_LEFT \/ key = ARROW_UP THEN [F0 EXCEPT !.direction = -1]
                  ELSE [F0 EXCEPT !.last_match = -1, !.direction = 1]
            F2 == IF F1.last_match = -1 THEN [F1 EXCEPT !.direction = 1] ELSE F1
        IN  FindLoop([E |-> S.E, F |-> F2], query, F2.last_match, 0)

\* editorFindCallback that goes on from the last match whatever the key
FindGoesOn(S, query, key) ==
    LET restored ==
            IF S.F.saved_hl # NULL
            THEN [E |-> [S.E EXCEPT !.row[S.F.saved_hl_line + 1].hl = S.F.saved_hl],
                  F |-> [S.F EXCEPT !.saved_hl = NULL]]
            ELSE S
        F0 == restored.F
    IN  IF key = CR \/ key = ESC
        THEN [restored EXCEPT !.F.last_match = -1, !.F.direction = 1]
        ELSE
        LET F1 == IF key = ARROW_LEFT \/ key = ARROW_UP THEN [F0 EXCEPT !.direction = -1]
                  ELSE [F0 EXCEPT !.direction = 1]
            F2 == IF F1.last_match = -1 THEN [F1 EXCEPT !.direction = 1] ELSE F1
        IN  FindLoop([E |-> restored.E, F |-> F2], query, F2.last_match, 0)

editorFindCallback(S, query, key) ==
    LET restored ==
            IF S.F.saved_hl # NULL
            THEN [E |-> [S.E EXCEPT !.row[S.F.saved_hl_line + 1].hl = S.F.saved_hl],
                  F |-> [S.F EXCEPT !.saved_hl = NULL]]
            ELSE S
        F0 == restored.F
    IN  IF key = CR \/ key = ESC
        THEN [restored EXCEPT !.F.last_match = -1, !.F.direction = 1]
        ELSE
        LET F1 == IF key = ARROW_RIGHT \/ key = ARROW_DOWN THEN [F0 EXCEPT !.direction = 1]
                  ELSE IF key = ARROW_LEFT \/ key = ARROW_UP THEN [F0 EXCEPT !.direction = -1]
                  ELSE [F0 EXCEPT !.last_match = -1, !.direction = 1]
            F2 == IF F1.last_match = -1 THEN [F1 EXCEPT !.direction = 1] ELSE F1
        IN  FindLoop([E |-> restored.E, F |-> F2], query, F2.last_match, 0)

\* The else branch of editorFind with the cursor put back, the offsets not
FindCancelKeepsOffsets(E, saved) == [E EXCEPT !.cx = saved.cx, !.cy = saved.cy]

\* The else branch of editorFind: the prompt returned NULL
editorFindCancel(E, saved) ==
    [E EXCEPT !.cx = saved.cx, !.cy = saved.cy,
              !.coloff = saved.coloff, !.rowoff = saved.rowoff]

(***************************************************************************)
(* output                                                                  *)
(***************************************************************************)
editorScroll(E) ==
    LET rx == IF E.cy < E.numrows THEN editorRowCxToRx(At(E.row, E.cy), E.cx) ELSE 0
        rowoff1 == IF E.cy < E.rowoff THEN E.cy ELSE E.rowoff
        rowoff2 == IF E.cy >= rowoff1 + E.screenrows THEN E.cy - E.screenrows + 1 ELSE rowoff1
        coloff1 == IF rx < E.coloff THEN E.cx ELSE E.coloff
        coloff2 == IF rx >= coloff1 + E.screencols THEN E.cx - E.screencols + 1 ELSE coloff1
    IN  [E EXCEPT !.rx = rx, !.rowoff = rowoff2, !.coloff = coloff2]

(***************************************************************************)
(* input                                                                   *)
(***************************************************************************)
\* editorMoveCursor without the correction of cx at its end
KeepCursor(E) == E

\* The end of editorMoveCursor: cx is brought back into the row it is now on
SnapCursor(E) ==
    LET rowlen == IF E.cy >= E.numrows THEN 0 ELSE Len(At(E.row, E.cy).chars)
    IN  IF E.cx > rowlen THEN [E EXCEPT !.cx = rowlen] ELSE E

\* editorMoveCursor with ArrowLeft and ArrowRight staying on their row
MoveWithinRow(E, key) ==
    LET onrow == E.cy < E.numrows
        size == IF onrow THEN Len(At(E.row, E.cy).chars) ELSE 0
    IN  SnapCursor(
            CASE key = ARROW_LEFT -> IF E.cx # 0 THEN [E EXCEPT !.cx = @ - 1] ELSE E
              [] key = ARROW_RIGHT -> IF onrow /\ E.cx < size THEN [E EXCEPT !.cx = @ + 1] ELSE E
              [] key = ARROW_UP -> IF E.cy # 0 THEN [E EXCEPT !.cy = @ - 1] ELSE E
              [] key = ARROW_DOWN -> IF E.cy < E.numrows THEN [E EXCEPT !.cy = @ + 1] ELSE E
              [] OTHER -> E)

editorMoveCursor(E, key) ==
    LET onrow == E.cy < E.numrows
        size == IF onrow THEN Len(At(E.row, E.cy).chars) ELSE 0
    IN  SnapCursor(
            CASE key = ARROW_LEFT ->
                     IF E.cx # 0 THEN [E EXCEPT !.cx = @ - 1]
                     ELSE IF E.cy > 0
                          THEN [E EXCEPT !.cy = @ - 1, !.cx = Len(At(E.row, E.cy - 1).chars)]
                          ELSE E
              [] key = ARROW_RIGHT ->
                     IF onrow /\ E.cx < size THEN [E EXCEPT !.cx = @ + 1]
                     ELSE IF onrow /\ E.cx = size THEN [E EXCEPT !.cy = @ + 1, !.cx = 0]
                          ELSE E
              [] key = ARROW_UP -> IF E.cy # 0 THEN [E EXCEPT !.cy = @ - 1] ELSE E
              [] key = ARROW_DOWN -> IF E.cy < E.numrows THEN [E EXCEPT !.cy = @ + 1] ELSE E
              [] OTHER -> E)

\* while (times--) editorMoveCursor(key)
RECURSIVE MoveCursorTimes(_, _, _)
MoveCursorTimes(E, key, times) ==
    IF times <= 0 THEN E ELSE MoveCursorTimes(editorMoveCursor(E, key), key, times - 1)

(***************************************************************************)
(* input: editorReadKey over what the read() calls return                  *)
(***************************************************************************)
\* read() returned 0: no byte within the timeout
NOBYTE == -1

\* What the k-th coming read() returns; nothing is pending behind the input
Peek(in, k) == IF k <= Len(in) THEN in[k] ELSE NOBYTE

\* The input behind the first k reads
Drop(in, k) == IF k >= Len(in) THEN << >> ELSE SubSeq(in, k + 1, Len(in))

\* The switch on seq[1] behind ESC [ digit ~
TildeKey(digit) ==
    CASE digit = 49 -> HOME_KEY
      [] digit = 51 -> DEL_KEY
      [] digit = 52 -> END_KEY
      [] digit = 53 -> PAGE_UP
      [] digit = 54 -> PAGE_DOWN
      [] digit = 55 -> HOME_KEY
      [] digit = 56 -> END_KEY
      [] OTHER -> ESC

\* The switch on seq[1] behind ESC [
BracketKey(letter) ==
    CASE letter = 65 -> ARROW_UP
      [] letter = 66 -> ARROW_DOWN
      [] letter = 67 -> ARROW_RIGHT
      [] letter = 68 -> ARROW_LEFT
      [] letter = 72 -> HOME_KEY
      [] letter = 70 -> END_KEY
      [] OTHER -> ESC

\* The switch on seq[1] behind ESC O
OKey(letter) ==
    CASE letter = 72 -> HOME_KEY
      [] letter = 70 -> END_KEY
      [] OTHER -> ESC

\* editorReadKey behind a first byte ESC: in is what the next reads return
EscapeSequence(in) ==
    IF Peek(in, 1) = NOBYTE THEN [key |-> ESC, rest |-> Drop(in, 1)]
    ELSE IF Peek(in, 2) = NOBYTE THEN [key |-> ESC, rest |-> Drop(in, 2)]
    ELSE IF Peek(in, 1) = 91
    THEN IF Peek(in, 2) >= 48 /\ Peek(in, 2) <= 57
         THEN IF Peek(in, 3) = NOBYTE THEN [key |-> ESC, rest |-> Drop(in, 3)]
              ELSE [key |-> IF Peek(in, 3) = 126 THEN TildeKey(Peek(in, 2)) ELSE ESC,
                    rest |-> Drop(in, 3)]
         ELSE [key |-> BracketKey(Peek(in, 2)), rest |-> Drop(in, 2)]
    ELSE IF Peek(in, 1) = 79
    THEN [key |-> OKey(Peek(in, 2)), rest |-> Drop(in, 2)]
    ELSE [key |-> ESC, rest |-> Drop(in, 2)]

\* editorReadKey that returns every byte as it is
RECURSIVE ReadKeyRaw(_)
ReadKeyRaw(in) ==
    IF Head(in) = NOBYTE THEN ReadKeyRaw(Tail(in))
    ELSE [key |-> Head(in), rest |-> Tail(in)]

\* editorReadKey on an input that holds a byte: the token, and the input left
RECURSIVE editorReadKey(_)
editorReadKey(in) ==
    IF Head(in) = NOBYTE THEN editorReadKey(Tail(in))
    ELSE IF Head(in) = ESC THEN EscapeSequence(Tail(in))
    ELSE [key |-> Head(in), rest |-> Tail(in)]

(***************************************************************************)
(* The state                                                               *)
(***************************************************************************)
VARIABLES
    E,            \* struct editorConfig E; E.row is the erow array
    quit_times,   \* static int quit_times of editorProcessKeypress
    F,            \* the statics of editorFindCallback
    saved,        \* the saved_cx, saved_cy, saved_coloff, saved_rowoff of editorFind
    buf,          \* the input buffer of a running editorPrompt
    mode,         \* "normal", or the prompt the control is in: "save", "find"
    pc,           \* "main", "refresh", "readkey", "exit"
    exit_status,  \* the argument of exit(), -1 while the process runs
    qpresses,     \* history: Ctrl-Q tokens read in a row by editorProcessKeypress
    snapshot,     \* history: the document at the last open or successful save
    op,           \* history: "open" or "saved" when the last step was that, else ""
    hist,         \* history: the tokens read so far (kept by SpecKeys only)
    tty           \* the terminal: its attributes, E.orig_termios, the atexit list

vars == << E, quit_times, F, saved, buf, mode, pc, exit_status, qpresses, snapshot,
           op, hist, tty >>

\* The terminal when the process starts.  attr: the attributes of the terminal
\* that standard input is; orig_termios: E.orig_termios; atexit: the functions
\* registered so far; stderr_tty: whether descriptor 2 is that terminal too;
\* applied (history): whether the raw attributes were ever applied; input: what
\* the coming read() calls on standard input return (kept by SpecDecode only)
TerminalAtStart(stderr_tty) ==
    [attr |-> "orig", orig_termios |-> "unset", atexit |-> << >>,
     stderr_tty |-> stderr_tty, applied |-> FALSE, input |-> << >>]

\* The terminal after enableRawMode() has returned
TerminalRaw(stderr_tty) ==
    [attr |-> "raw", orig_termios |-> "orig", atexit |-> << "disableRawMode" >>,
     stderr_tty |-> stderr_tty, applied |-> TRUE, input |-> << >>]

\* The prompt strings, with the %s slot filled
PromptMessage(m, b) ==
    IF m = "save" THEN << "Save as: %s (ESC to cancel)", b >>
    ELSE << "Search: %s (Use ESC/Arrows/Enter)", b >>

\* initEditor() on a window of rows x cols (two rows are kept for the bars)
initEditor(rows, cols) ==
    [ cx |-> 0, cy |-> 0, rx |-> 0, rowoff |-> 0, coloff |-> 0,
      screenrows |-> rows - 2, screencols |-> cols,
      numrows |-> 0, row |-> << >>, dirty |-> 0, filename |-> NULL,
      statusmsg |-> << "" >>, syntax |-> NOSYNTAX ]

\* The state main() starts from, for the window sizes given
InitWith(sizes) ==
    /\ E \in {initEditor(sz[1], sz[2]) : sz \in sizes}
    /\ quit_times = CONFIRM_QUIT_TIMES
    /\ F = [last_match |-> -1, direction |-> 1, saved_hl_line |-> 0, saved_hl |-> NULL]
    /\ saved = [cx |-> 0, cy |-> 0, coloff |-> 0, rowoff |-> 0]
    /\ buf = << >>
    /\ mode = "normal"
    /\ pc = "main"
    /\ exit_status = -1
    /\ qpresses = 0
    /\ snapshot = << >>
    /\ op = ""
    /\ hist = << >>
    /\ tty = TerminalRaw(TRUE)

(***************************************************************************)
(* main(): open argv[1] if given, post the help message, enter the loop    *)
(***************************************************************************)
\* An argument is [name, exists, bytes]; NoArg stands for argc < 2
NoArg == [name |-> NULL, exists |-> FALSE, bytes |-> << >>]

Main(args) ==
    /\ pc = "main"
    /\ \E a \in args :
         IF a = NoArg
         THEN /\ E' = [E EXCEPT !.statusmsg = << "HELP" >>]
              /\ pc' = "refresh"
              /\ op' = ""
              /\ UNCHANGED exit_status
         ELSE IF a.exists
         THEN /\ E' = [editorOpen(E, a.name, a.bytes) EXCEPT !.statusmsg = << "HELP" >>]
              /\ pc' = "refresh"
              /\ op' = "open"
              /\ UNCHANGED exit_status
         ELSE \* die("fopen")
              /\ E' = editorSelectSyntaxHighlight([E EXCEPT !.filename = a.name])
              /\ pc' = "exit"
              /\ op' = ""
              /\ exit_status' = 1
    /\ snapshot' = Document(E')
    /\ UNCHANGED << quit_times, F, saved, buf, mode, qpresses, tty >>

(***************************************************************************)
(* The head of the loops: editorRefreshScreen(), after the prompt's        *)
(* editorSetStatusMessage(prompt, buf) when a prompt runs                  *)
(***************************************************************************)
Refresh ==
    /\ pc = "refresh"
    /\ E' = editorScroll(IF mode = "normal" THEN E
                         ELSE [E EXCEPT !.statusmsg = PromptMessage(mode, buf)])
    /\ pc' = "readkey"
    /\ UNCHANGED << quit_times, F, saved, buf, mode, exit_status, qpresses, snapshot >>
    /\ UNCHANGED << op, hist, tty >>

(***************************************************************************)
(* editorProcessKeypress                                                   *)
(***************************************************************************)
\* The cases of the switch that only change E
\* PAGE_UP, PAGE_DOWN without the screenful of arrow moves
PageJump(E0, c) ==
    IF c = PAGE_UP THEN [E0 EXCEPT !.cy = E0.rowoff]
    ELSE LET bottom == E0.rowoff + E0.screenrows - 1
         IN  [E0 EXCEPT !.cy = IF bottom > E0.numrows THEN E0.numrows ELSE bottom]

PageMove(E0, c) ==
    LET E1 == IF c = PAGE_UP THEN [E0 EXCEPT !.cy = E0.rowoff]
              ELSE LET bottom == E0.rowoff + E0.screenrows - 1
                   IN  [E0 EXCEPT !.cy = IF bottom > E0.numrows THEN E0.numrows ELSE bottom]
    IN  MoveCursorTimes(E1, IF c = PAGE_UP THEN ARROW_UP ELSE ARROW_DOWN, E0.screenrows)

\* The switch without the case that absorbs Ctrl-L and Escape
EditKeyInsertsAll(E0, c) ==
    CASE c = CR -> editorInsertNewline(E0)
      [] c = HOME_KEY -> [E0 EXCEPT !.cx = 0]
      [] c = END_KEY ->
           IF E0.cy < E0.numrows THEN [E0 EXCEPT !.cx = Len(At(E0.row, E0.cy).chars)] ELSE E0
      [] c \in {BACKSPACE, CTRL_H} -> editorDelChar(E0)
      [] c = DEL_KEY -> editorDelChar(editorMoveCursor(E0, ARROW_RIGHT))
      [] c \in {PAGE_UP, PAGE_DOWN} -> PageMove(E0, c)
      [] c \in {ARROW_UP, ARROW_DOWN, ARROW_LEFT, ARROW_RIGHT} -> editorMoveCursor(E0, c)
      [] OTHER -> editorInsertChar(E0, c)

EditKey(E0, c) ==
    CASE c = CR -> editorInsertNewline(E0)
      [] c = HOME_KEY -> [E0 EXCEPT !.cx = 0]
      [] c = END_KEY ->
           IF E0.cy < E0.numrows THEN [E0 EXCEPT !.cx = Len(At(E0.row, E0.cy).chars)] ELSE E0
      [] c \in {BACKSPACE, CTRL_H} -> editorDelChar(E0)
      [] c = DEL_KEY -> editorDelChar(editorMoveCursor(E0, ARROW_RIGHT))
      [] c \in {PAGE_UP, PAGE_DOWN} -> PageMove(E0, c)
      [] c \in {ARROW_UP, ARROW_DOWN, ARROW_LEFT, ARROW_RIGHT} -> editorMoveCursor(E0, c)
      [] c \in {CTRL_L, ESC} -> E0
      [] OTHER -> editorInsertChar(E0, c)

\* if (E.dirty && quit_times > 0): warn and return instead of quitting
QuitWarns(e, qt) == e.dirty # 0 /\ qt > 0

\* editorProcessKeypress without the reset of quit_times at its end
QuitTimesKept == quit_times

\* The value of quit_times when a key other than a warned Ctrl-Q returns
QuitTimesReset == CONFIRM_QUIT_TIMES

editorProcessKeypress(c, ios) ==
    /\ pc = "readkey"
    /\ mode = "normal"
    /\ qpresses' = IF c = CTRL_Q THEN qpresses + 1 ELSE 0
    /\ CASE c = CTRL_Q ->
              IF QuitWarns(E, quit_times)
              THEN /\ E' = [E EXCEPT !.statusmsg = << "WARNING", quit_times >>]
                   /\ quit_times' = quit_times - 1
                   /\ pc' = "refresh"
                   /\ op' = ""
                   /\ UNCHANGED << F, saved, buf, mode, exit_status, snapshot >>
              ELSE /\ pc' = "exit"
                   /\ exit_status' = 0
                   /\ op' = ""
                   /\ UNCHANGED << E, quit_times, F, saved, buf, mode, snapshot >>
         [] c = CTRL_S ->
              IF E.filename = NULL
              THEN \* editorSave() calls editorPrompt
                   /\ mode' = "save"
                   /\ buf' = << >>
                   /\ pc' = "refresh"
                   /\ op' = ""
                   /\ UNCHANGED << E, quit_times, F, saved, exit_status, snapshot >>
              ELSE /\ \E io \in ios :
                        /\ E' = SaveToDisk(E, io)
                        /\ snapshot' = IF io = "ok" THEN Document(E) ELSE snapshot
                        /\ op' = IF io = "ok" THEN "saved" ELSE ""
                   /\ quit_times' = QuitTimesReset
                   /\ pc' = "refresh"
                   /\ UNCHANGED << F, saved, buf, mode, exit_status >>
         [] c = CTRL_F ->
              \* editorFind() saves the cursor and calls editorPrompt
              /\ saved' = [cx |-> E.cx, cy |-> E.cy, coloff |-> E.coloff, rowoff |-> E.rowoff]
              /\ mode' = "find"
              /\ buf' = << >>
              /\ pc' = "refresh"
              /\ op' = ""
              /\ UNCHANGED << E, quit_times, F, exit_status, snapshot >>
         [] OTHER ->
              /\ E' = EditKey(E, c)
              /\ quit_times' = QuitTimesReset
              /\ pc' = "refresh"
              /\ op' = ""
              /\ UNCHANGED << F, saved, buf, mode, exit_status, snapshot >>

(***************************************************************************)
(* editorPrompt: one turn of its loop, from the key read to the return or  *)
(* to the head of the loop; with the caller's code after a return          *)
(* (editorSave, editorFind, then the end of editorProcessKeypress)         *)
(***************************************************************************)
\* if (callback) callback(buf, c): only the search prompt has one
PromptCallback(m, S, b, c) == IF m = "find" THEN editorFindCallback(S, b, c) ELSE S

\* The buffer after the key: a delete key drops the last byte, a byte that is
\* no control byte and below 128 is appended, any other key leaves it
PromptBuffer(b, c) ==
    IF c \in {DEL_KEY, CTRL_H, BACKSPACE}
    THEN IF Len(b) # 0 THEN SubSeq(b, 1, Len(b) - 1) ELSE b
    ELSE IF c # ESC /\ c # CR /\ c < 128 /\ ~iscntrl(c) THEN Append(b, c)
    ELSE b

\* A prompt that Enter ends on an empty buffer too
PromptReturnsOnEnter(b, c) == c = ESC \/ c = CR

\* Whether the key ends the prompt
PromptReturns(b, c) == c = ESC \/ (c = CR /\ Len(b) # 0)

editorPrompt(c, ios) ==
    LET \* the key does not end the prompt: back to the head of its loop
        loops(S) ==
            /\ buf' = PromptBuffer(buf, c)
            /\ E' = S.E
            /\ F' = S.F
            /\ op' = ""
            /\ UNCHANGED << quit_times, saved, mode, snapshot >>
        \* editorSave() from the prompt's return of the name on
        saves(named) ==
            \E io \in ios :
                /\ E' = SaveToDisk(named, io)
                /\ snapshot' = IF io = "ok" THEN Document(named) ELSE snapshot
                /\ op' = IF io = "ok" THEN "saved" ELSE ""
        \* the prompt returns to editorFind or editorSave
        returns(S) ==
            /\ F' = S.F
            /\ buf' = << >>
            /\ mode' = "normal"
            /\ quit_times' = QuitTimesReset
            \* the saved_* locals of editorFind end with its return
            /\ saved' = [cx |-> 0, cy |-> 0, coloff |-> 0, rowoff |-> 0]
            /\ IF mode = "find"
               THEN /\ E' = IF c = ESC THEN editorFindCancel(S.E, saved) ELSE S.E
                    /\ op' = ""
                    /\ UNCHANGED snapshot
               ELSE IF c = ESC
               THEN /\ E' = [S.E EXCEPT !.statusmsg = << "Save aborted" >>]
                    /\ op' = ""
                    /\ UNCHANGED snapshot
               ELSE saves(editorSelectSyntaxHighlight([S.E EXCEPT !.filename = buf]))
    IN  /\ pc = "readkey"
        /\ mode \in {"save", "find"}
        /\ UNCHANGED tty
        /\ qpresses' = 0
        /\ pc' = "refresh"
        /\ UNCHANGED exit_status
        /\ IF ~PromptReturns(buf, c)
           THEN loops(PromptCallback(mode, [E |-> E, F |-> F], PromptBuffer(buf, c), c))
           ELSE returns(PromptCallback(mode,
                                       [E |-> [E EXCEPT !.statusmsg = << "" >>], F |-> F],
                                       buf, c))

(***************************************************************************)
(* The steps of a run                                                      *)
(***************************************************************************)
\* main() up to the loop, on one of the arguments
Start(args) == Main(args) /\ UNCHANGED hist

\* A token is read and handled in the loop of main()
Normal(keys, ios) ==
    \E c \in keys : editorProcessKeypress(c, ios) /\ UNCHANGED << hist, tty >>

\* The token is decoded from the pending input and handled in the loop of
\* main(); the call blocks while no byte is pending
Decoded(ios) ==
    /\ \E k \in 1..Len(tty.input) : tty.input[k] # NOBYTE
    /\ editorProcessKeypress(editorReadKey(tty.input).key, ios)
    /\ hist' = Append(hist, editorReadKey(tty.input).key)
    /\ tty' = [tty EXCEPT !.input = editorReadKey(tty.input).rest]

\* A token is read and handled in the loop of editorPrompt
Prompt(keys, ios) == \E c \in keys : editorPrompt(c, ios) /\ UNCHANGED hist

(***************************************************************************)
(* The terminal: enableRawMode, die, the exit handlers                     *)
(***************************************************************************)
\* What the steps below leave alone
editor == << E, quit_times, F, saved, buf, mode, qpresses, snapshot, hist >>

\* die(s): the screen is cleared, perror(s), exit(1)
die ==
    /\ pc' = "exit"
    /\ exit_status' = 1

\* enableRawMode: tcgetattr(STDIN_FILENO, &E.orig_termios), or die("tcgetattr")
TcGetAttr ==
    /\ pc = "enableRawMode"
    /\ \/ /\ tty' = [tty EXCEPT !.orig_termios = tty.attr]
          /\ pc' = "atexit"
          /\ UNCHANGED exit_status
       \/ /\ die
          /\ UNCHANGED tty
    /\ UNCHANGED << editor, op >>

\* enableRawMode: atexit(disableRawMode)
AtExitRegister ==
    /\ pc = "atexit"
    /\ tty' = [tty EXCEPT !.atexit = Append(@, "disableRawMode")]
    /\ pc' = "tcsetattr"
    /\ UNCHANGED << editor, op, exit_status >>

\* enableRawMode: tcsetattr(STDIN_FILENO, TCSAFLUSH, &raw), or die("tcsetattr")
TcSetAttr ==
    /\ pc = "tcsetattr"
    /\ \/ /\ tty' = [tty EXCEPT !.attr = "raw", !.applied = TRUE]
          /\ pc' = "initEditor"
          /\ UNCHANGED exit_status
       \/ /\ die
          /\ UNCHANGED tty
    /\ UNCHANGED << editor, op >>

\* initEditor: getWindowSize(&E.screenrows, &E.screencols), or
\* die("getWindowSize"); E holds the window from the start
GetWindowSize ==
    /\ pc = "initEditor"
    /\ \/ pc' = "main" /\ UNCHANGED exit_status
       \/ die
    /\ UNCHANGED << editor, op, tty >>

\* editorReadKey: read() returns -1 with errno != EAGAIN, die("read")
ReadFails ==
    /\ pc = "readkey"
    /\ die
    /\ op' = ""
    /\ UNCHANGED << editor, tty >>

\* exit(): the registered functions run, then the process ends.
\* disableRawMode is tcsetattr(STDERR_FILENO, TCSAFLUSH, &E.orig_termios); it
\* fails when descriptor 2 is no terminal, and then die() calls exit() from
\* inside exit(), which is undefined: the status is either one
AtExit ==
    /\ pc = "exit"
    /\ pc' = "done"
    /\ op' = ""
    /\ IF tty.atexit = << >>
       THEN UNCHANGED << tty, exit_status >>
       ELSE IF tty.stderr_tty
       THEN /\ tty' = [tty EXCEPT !.attr = tty.orig_termios]
            /\ UNCHANGED exit_status
       ELSE /\ UNCHANGED tty
            /\ exit_status' \in {exit_status, 1}
    /\ UNCHANGED editor

\* The step stays within md row operations and mb bytes of prompt input
Within(md, mb) == E'.dirty <= md /\ Len(buf') <= mb

\* The step writes no file of more than mf bytes
Fits(mf) == op' = "saved" => Len(editorRowsToString(E')) <= mf

(***************************************************************************)
(* Spec: editing, moving and searching in a document without syntax        *)
(***************************************************************************)
\* No more than MaxDirty row operations since the document was opened, and no
\* more than MaxBuf bytes in a prompt
MaxDirty == 2
MaxBuf == 1

\* 'a'; Enter and the delete keys; the moving keys; the search and Escape
Keys == {97, CR, BACKSPACE, DEL_KEY, ARROW_LEFT, ARROW_RIGHT, ARROW_UP, ARROW_DOWN,
         HOME_KEY, END_KEY, PAGE_UP, PAGE_DOWN, CTRL_F, ESC}

\* No argument, or a file "t" of two lines: "<TAB>a", ""
Args == { NoArg,
          [name |-> << 116 >>, exists |-> TRUE, bytes |-> << TAB, 97, LF, LF >>] }

\* A window of 3 x 3: one text row of 3 columns
Init == InitWith({<< 3, 3 >>})

Next ==
    \/ Start(Args)
    \/ Refresh
    \/ Normal(Keys, {"ok"}) /\ Within(MaxDirty, MaxBuf)
    \/ Prompt(Keys, {"ok"}) /\ Within(MaxDirty, MaxBuf)

Spec == Init /\ [][Next]_vars

\* C1: (cursor invariant) after every token handled in the main loop or in the
\* search prompt, from the empty or a loaded document: 0 <= cy <= N; on a row
\* 0 <= cx <= the length of its raw bytes; on the tail row (cy = N) cx = 0.
CursorInvariant ==
    /\ 0 <= E.cy
    /\ E.cy <= E.numrows
    /\ (E.cy < E.numrows => 0 <= E.cx /\ E.cx <= Len(At(E.row, E.cy).chars))
    /\ (E.cy = E.numrows => E.cx = 0)

\* A search, after an edit, has put the cursor on a match that lies behind a tab
CursorOnMatch ==
    /\ pc = "refresh"
    /\ mode = "find"
    /\ E.dirty > 0
    /\ F.last_match = 0
    /\ E.cy = 0
    /\ E.cx = 1

\* C8: after the scroll reconciliation of a refresh the window holds the cursor:
\* rowoff <= cy < rowoff + screenrows and coloff <= rx < coloff + screencols,
\* also on rows with tabs.
CursorInWindow ==
    pc = "readkey" =>
        /\ E.rowoff <= E.cy
        /\ E.cy < E.rowoff + E.screenrows
        /\ E.coloff <= E.rx
        /\ E.rx < E.coloff + E.screencols

\* The offsets the reconciliation is said to compute, all in rendered columns
ScrollByRx(e) ==
    LET rx == IF e.cy < e.numrows THEN editorRowCxToRx(At(e.row, e.cy), e.cx) ELSE 0
        rowoff1 == IF e.cy < e.rowoff THEN e.cy ELSE e.rowoff
        rowoff2 == IF e.cy >= rowoff1 + e.screenrows THEN e.cy - e.screenrows + 1 ELSE rowoff1
        coloff1 == IF rx < e.coloff THEN rx ELSE e.coloff
        coloff2 == IF rx >= coloff1 + e.screencols THEN rx - e.screencols + 1 ELSE coloff1
    IN  [rx |-> rx, rowoff |-> rowoff2, coloff |-> coloff2]

\* C9: the scroll reconciliation sets rx from cx (0 on the tail row), then
\* rowoff = cy if cy < rowoff, rowoff = cy - screenrows + 1 if cy >= rowoff +
\* screenrows, coloff = rx if rx < coloff, coloff = rx - screencols + 1 if
\* rx >= coloff + screencols, and leaves the offsets alone otherwise.
ScrollFormula ==
    [][pc = "refresh" =>
          [rx |-> E'.rx, rowoff |-> E'.rowoff, coloff |-> E'.coloff] = ScrollByRx(E)]_vars

\* C14: in every reachable state, after every row operation and at every point
\* of a search session, every row has as many highlight cells as rendered bytes.
HighlightLength ==
    \A r \in 1..Len(E.row) : Len(E.row[r].hl) = Len(E.row[r].render)

\* In a search session, the match is tagged on a row whose tab is expanded
MatchBehindTab ==
    /\ mode = "find"
    /\ \E r \in 1..Len(E.row) :
           /\ Len(E.row[r].render) > Len(E.row[r].chars)
           /\ \E j \in 1..Len(E.row[r].hl) : E.row[r].hl[j] = HL_MATCH

(***************************************************************************)
(* SpecFile: loading any small file, and moving through it                 *)
(***************************************************************************)
\* The files hold no more than MaxFileLen bytes
MaxFileLen == 4

\* 'a', 'b', tab, CR, LF
FileBytes == {97, 98, TAB, CR, LF}

\* A file "t" holding any bytes of FileBytes
FileArgs ==
    { [name |-> << 116 >>, exists |-> TRUE, bytes |-> b] :
          b \in UNION { [1..k -> FileBytes] : k \in 0..MaxFileLen } }

\* The keys that walk through the bytes and the rows
FileKeys == {ARROW_RIGHT, ARROW_DOWN}

InitFile == InitWith({<< 3, 3 >>})

NextFile ==
    \/ Start(FileArgs)
    \/ Refresh
    \/ Normal(FileKeys, {"ok"})

SpecFile == InitFile /\ [][NextFile]_vars

\* C11: (rows_to_bytes round trip) for a document obtained by loading a file,
\* serialising it (each row's raw bytes followed by one LF, the last row too)
\* and loading the result gives the same number of rows and the same raw bytes
\* in every row.
FileRoundTrip ==
    LET again == editorOpen(initEditor(3, 3), E.filename, editorRowsToString(E))
    IN  /\ again.numrows = E.numrows
        /\ Document(again) = Document(E)

\* A file with an empty line and an unterminated last line
\* has been loaded
LoadedMixedEnds ==
    /\ op = "open"
    /\ snapshot = << << 97 >>, << >>, << 98 >> >>
    /\ E.numrows = 3

\* C12: (cx/rx round trip) for every row, tabs or not, and every cx with
\* 0 <= cx <= len(raw): rx->cx(row, cx->rx(row, cx)) = cx; and for the raw
\* bytes "a<TAB>b", cx->rx(row, 2) = 8 and rx->cx(row, 4) = 1.
CxRxRoundTrip ==
    \A k \in 1..Len(E.row) :
        /\ \A cx \in 0..Len(E.row[k].chars) :
               editorRowRxToCx(E.row[k], editorRowCxToRx(E.row[k], cx)) = cx
        /\ E.row[k].chars = << 97, TAB, 98 >> =>
               /\ editorRowCxToRx(E.row[k], 2) = 8
               /\ editorRowRxToCx(E.row[k], 4) = 1

\* The cursor stands behind the tab of "a<TAB>b", and the screen is refreshed
BehindTheTab ==
    /\ pc = "readkey"
    /\ E.numrows = 1
    /\ E.row[1].chars = << 97, TAB, 98 >>
    /\ E.cx = 2
    /\ E.rx = 8

(***************************************************************************)
(* SpecSave: editing, saving and quitting                                  *)
(***************************************************************************)
\* No more than MaxDirtySave row operations since the last open or save, no
\* more than MaxBufSave bytes in the prompt, no file of more than MaxFileSave bytes
MaxDirtySave == 2
MaxBufSave == 1
MaxFileSave == 4

\* 'a', Enter, the delete keys, down; Ctrl-Q, Ctrl-S; Escape
SaveKeys == {97, CR, BACKSPACE, DEL_KEY, ARROW_DOWN, CTRL_Q, CTRL_S, ESC}

\* No argument, an empty file "e", a file "t" of two lines "a", "b"
SaveArgs == { NoArg,
              [name |-> << 101 >>, exists |-> TRUE, bytes |-> << >>],
              [name |-> << 116 >>, exists |-> TRUE, bytes |-> << 97, LF, 98, LF >>] }

\* A save goes through, or its write() fails
SaveIos == {"ok", "write"}

InitSave == InitWith({<< 3, 3 >>})

NextSave ==
    \/ Start(SaveArgs)
    \/ Refresh
    \/ Normal(SaveKeys, SaveIos) /\ Within(MaxDirtySave, MaxBufSave) /\ Fits(MaxFileSave)
    \/ Prompt(SaveKeys, SaveIos) /\ Within(MaxDirtySave, MaxBufSave) /\ Fits(MaxFileSave)

SpecSave == InitSave /\ [][NextSave]_vars

\* C3: (quit guard) a Ctrl-Q read by the main loop ends the process, with exit
\* code 0, exactly when dirty = 0 or it is the fourth Ctrl-Q in a row; an earlier
\* one with dirty # 0 only posts the warning; no other token ends the process,
\* and any other token starts the count again.
QuitGuard ==
    [][/\ qpresses' = qpresses + 1 =>
            /\ (pc' = "exit") <=> (E.dirty = 0 \/ qpresses' = 4)
            /\ pc' = "exit" => exit_status' = 0 /\ E' = E
            /\ pc' # "exit" =>
                   E' = [E EXCEPT !.statusmsg = << "WARNING", 4 - qpresses' >>]
       /\ (pc = "readkey" /\ qpresses' # qpresses + 1) =>
            pc' # "exit" /\ qpresses' = 0]_vars

\* The process has ended on the fourth Ctrl-Q in a row, with unsaved changes
QuitOnFourth == pc = "exit" /\ exit_status = 0 /\ qpresses = 4 /\ E.dirty # 0

CleanAfterOpenAndSave ==
    /\ [](op \in {"open", "saved"} => E.dirty = 0)
    /\ [][(E.dirty # 0 /\ E'.dirty = 0) => op' \in {"open", "saved"}]_vars

\* The file of two lines has just been opened
OpenedTwoRows == op = "open" /\ E.numrows = 2 /\ E.dirty = 0 /\ pc = "refresh"

\* C6: a token that changes a row's raw bytes or the number of rows strictly
\* increases dirty, and dirty decreases only by being set to 0 by an open or a
\* successful save.
DirtyMonotonic ==
    [][/\ (pc = "readkey" /\ Document(E') # Document(E)) => E'.dirty > E.dirty
       /\ E'.dirty < E.dirty => (E'.dirty = 0 /\ op' \in {"open", "saved"})]_vars

\* The two rows of the file have been joined into one
JoinedRows == Len(snapshot) = 2 /\ E.numrows = 1 /\ E.dirty >= 2 /\ op = ""

(***************************************************************************)
(* SpecKeys: typing into the empty document, with the tokens recorded      *)
(***************************************************************************)
MaxHist == 5

\* 'a', 'b', 'c', 'd', Enter
ScriptKeys == {97, 98, 99, 100, CR}

InitKeys == InitWith({<< 4, 10 >>})

\* A token is read and handled in the loop of main(), and recorded
Typed(keys) ==
    \E c \in keys :
        /\ Len(hist) < MaxHist
        /\ editorProcessKeypress(c, {"ok"})
        /\ hist' = Append(hist, c)
        /\ UNCHANGED tty

NextKeys ==
    \/ Start({NoArg})
    \/ Refresh
    \/ Typed(ScriptKeys)

SpecKeys == InitKeys /\ [][NextKeys]_vars

\* The tokens of scenario 1: 'a', 'b', 'c', Enter, 'd'
Scenario1 == << 97, 98, 99, CR, 100 >>

\* C7, as the code has it: from the empty document 'a', 'b', 'c', Enter, 'd'
\* give the two rows "abc" and "d", the cursor at (cy = 1, cx = 1), and
\* dirty = 6: the first byte costs two (the new row, the byte), Enter one.
Scenario1Result ==
    hist = Scenario1 =>
        /\ Document(E) = << << 97, 98, 99 >>, << 100 >> >>
        /\ E.numrows = 2
        /\ E.cy = 1
        /\ E.cx = 1
        /\ E.dirty = 6

\* C7 as stated: the same rows and cursor, and dirty = 4.
Scenario1AsStated ==
    hist = Scenario1 =>
        /\ Document(E) = << << 97, 98, 99 >>, << 100 >> >>
        /\ E.numrows = 2
        /\ E.cy = 1
        /\ E.cx = 1
        /\ E.dirty = 4

\* The five tokens have been handled and the screen refreshed
Scenario1Done == hist = Scenario1 /\ pc = "readkey"

(***************************************************************************)
(* SpecC: editing a C file                                                 *)
(***************************************************************************)
MaxDirtyC == 2

\* '/', '*'; Enter and Backspace; the arrows
CKeys == {47, 42, CR, BACKSPACE, ARROW_LEFT, ARROW_RIGHT, ARROW_UP, ARROW_DOWN}

\* A file "x.c" of two lines: "//*", "x"
CArgs == { [name |-> << 120, 46, 99 >>, exists |-> TRUE,
            bytes |-> << 47, 47, 42, LF, 120, LF >>] }

InitC == InitWith({<< 4, 10 >>})

NextC ==
    \/ Start(CArgs)
    \/ Refresh
    \/ Normal(CKeys, {"ok"}) /\ Within(MaxDirtyC, 0)

SpecC == InitC /\ [][NextC]_vars

\* What the highlighter computes for row i (0-based) of e from its rendered
\* text, starting in a comment when row i - 1 is stored as ending in one
Rescan(e, i) ==
    ScanRow(HLDB[e.syntax], At(e.row, i).render, 0,
            [hl |-> Fill(Len(At(e.row, i).render), HL_NORMAL), prev_sep |-> TRUE,
             in_string |-> 0,
             in_comment |-> i > 0 /\ At(e.row, i - 1).hl_open_comment])

\* C2: (highlight consistency, C syntax selected) after every editing
\* operation the stored highlight and open_comment of every row i are what the
\* highlighter computes from the row's rendered text starting with the
\* open_comment of row i - 1 (false for row 0).
HighlightConsistent ==
    E.syntax # NOSYNTAX =>
        \A i \in 0..(E.numrows - 1) :
            /\ At(E.row, i).hl = Rescan(E, i).hl
            /\ At(E.row, i).hl_open_comment = Rescan(E, i).in_comment

(***************************************************************************)
(* SpecComment: multi-line comments across the rows of a C file            *)
(***************************************************************************)
\* Editing stops when E.dirty would pass MaxDirtyComment
MaxDirtyComment == 3

\* '/', '*', Enter, Backspace and the arrows
CommentKeys == {47, 42, CR, BACKSPACE, ARROW_LEFT, ARROW_RIGHT, ARROW_UP, ARROW_DOWN}

\* A file "x.c" holding "a", "//*", "x"
CommentArgs ==
    { [name |-> << 120, 46, 99 >>, exists |-> TRUE,
       bytes |-> << 97, LF, 47, 47, 42, LF, 120, LF >>] }

InitComment == InitWith({<< 6, 10 >>})

NextComment ==
    \/ Start(CommentArgs)
    \/ Refresh
    \/ Normal(CommentKeys, {"ok"}) /\ Within(MaxDirtyComment, 0)

SpecComment == InitComment /\ [][NextComment]_vars

\* This step types '*' behind a '/' at the end of row E.cy, and the "/*" opens
\* a comment there
OpensComment ==
    /\ E.syntax # NOSYNTAX
    /\ E.cy < E.numrows
    /\ E'.numrows = E.numrows
    /\ E.cx = Len(At(E.row, E.cy).chars)
    /\ E.cx > 0
    /\ At(At(E.row, E.cy).chars, E.cx - 1) = 47
    /\ At(E'.row, E.cy).chars = Append(At(E.row, E.cy).chars, 42)
    /\ \A j \in 0..(E.numrows - 1) :
           j # E.cy => At(E'.row, j).chars = At(E.row, j).chars
    /\ ~At(E.row, E.cy).hl_open_comment
    /\ At(E'.row, E.cy).hl_open_comment

\* The rows behind row i of e up to the first one holding the closing "*/" are
\* open; that row and the rows behind it are closed, as far as no "/*" follows
Cascaded(e, i) ==
    LET closes(j) == StrStr(At(e.row, j).render, << 42, 47 >>) >= 0
        opens(j) == StrStr(At(e.row, j).render, << 47, 42 >>) >= 0
    IN  \A j \in (i + 1)..(e.numrows - 1) :
            IF \A k \in (i + 1)..j : ~closes(k)
            THEN At(e.row, j).hl_open_comment
            ELSE (\A k \in (i + 1)..j : closes(k) \/ ~opens(k)) =>
                     ~At(e.row, j).hl_open_comment

\* C16: (highlight cascade, C syntax selected) after "/*" is inserted at the
\* end of row i, with no closing "*/" behind it, every row j > i has
\* hl_open_comment set up to the first row whose render holds "*/"; that row
\* and all rows after it have it clear.
CommentCascade == [][OpensComment => Cascaded(E', E.cy)]_vars

(***************************************************************************)
(* SpecScenario5: deleting the end of a comment in a C file                *)
(***************************************************************************)
\* Editing stops when E.dirty would pass MaxDirtyScenario5
MaxDirtyScenario5 == 2

\* Backspace and the arrows
Scenario5Keys == {BACKSPACE, ARROW_LEFT, ARROW_RIGHT, ARROW_UP, ARROW_DOWN}

\* The lines "/*", "hello", "*/", "world"
Scenario5Lines ==
    << << 47, 42 >>, << 104, 101, 108, 108, 111 >>, << 42, 47 >>,
       << 119, 111, 114, 108, 100 >> >>

\* A file "x.c" holding Scenario5Lines
Scenario5Args ==
    { [name |-> << 120, 46, 99 >>, exists |-> TRUE,
       bytes |-> << 47, 42, LF, 104, 101, 108, 108, 111, LF, 42, 47, LF,
                    119, 111, 114, 108, 100, LF >>] }

InitScenario5 == InitWith({<< 6, 10 >>})

NextScenario5 ==
    \/ Start(Scenario5Args)
    \/ Refresh
    \/ Normal(Scenario5Keys, {"ok"}) /\ Within(MaxDirtyScenario5, 0)

SpecScenario5 == InitScenario5 /\ [][NextScenario5]_vars

\* C17: (scenario 5, C syntax selected) after loading "/*", "hello", "*/",
\* "world", rows 0..2 have hl_open_comment TRUE, TRUE, FALSE and the first
\* byte of row 3 is Normal; after the two bytes of row 2 are deleted with
\* Backspace, all four rows have hl_open_comment TRUE.
Scenario5 ==
    /\ (op = "open" /\ Document(E) = Scenario5Lines) =>
           /\ E.row[1].hl_open_comment /\ E.row[2].hl_open_comment
           /\ ~E.row[3].hl_open_comment
           /\ E.row[4].hl[1] = HL_NORMAL
    /\ (snapshot = Scenario5Lines /\ E.dirty = 2
          /\ Document(E) = [Scenario5Lines EXCEPT ![3] = << >>]) =>
           \A k \in 1..4 : E.row[k].hl_open_comment

\* The two bytes of row 2 are deleted, and "world" is now inside the comment
Scenario5Done ==
    /\ snapshot = Scenario5Lines
    /\ E.dirty = 2
    /\ Document(E) = [Scenario5Lines EXCEPT ![3] = << >>]
    /\ E.cy = 2 /\ E.cx = 0
    /\ E.row[4].hl = Fill(5, HL_MLCOMMENT)

(***************************************************************************)
(* SpecBytes: typing bytes, among them Ctrl-J, into a loaded file          *)
(***************************************************************************)
MaxDirtyBytes == 3

\* 'a', Ctrl-J, tab, NUL; Enter, Backspace and down
ByteKeys == {97, LF, TAB, 0, CR, BACKSPACE, ARROW_DOWN}

\* No argument, or a file "t" holding "a" CR LF, LF, "b" CR: rows "a", "", "b"
BytesArgs == { NoArg,
               [name |-> << 116 >>, exists |-> TRUE,
                bytes |-> << 97, CR, LF, LF, 98, CR >>] }

InitBytes == InitWith({<< 4, 10 >>})

NextBytes ==
    \/ Start(BytesArgs)
    \/ Refresh
    \/ Normal(ByteKeys, {"ok"}) /\ Within(MaxDirtyBytes, 0)

SpecBytes == InitBytes /\ [][NextBytes]_vars

\* C10: no row's raw bytes hold a line terminator: no LF after a load and after
\* any tokens, and no row as loaded from a file ends in CR or LF.
NoLineTerminator ==
    /\ \A k \in 1..Len(E.row) : \A j \in 1..Len(E.row[k].chars) : E.row[k].chars[j] # LF
    /\ op = "open" =>
           \A k \in 1..Len(E.row) :
               LET chars == E.row[k].chars
               IN  Len(chars) > 0 => chars[Len(chars)] \notin {CR, LF}

\* The rendered column behind each of the first k raw bytes, a tab ending at
\* the next multiple of TAB_STOP_LENGTH
RECURSIVE ColumnBehind(_, _)
ColumnBehind(chars, k) ==
    IF k = 0 THEN 0
    ELSE IF chars[k] = TAB
         THEN ((ColumnBehind(chars, k - 1) \div TAB_STOP_LENGTH) + 1) * TAB_STOP_LENGTH
         ELSE ColumnBehind(chars, k - 1) + 1

\* C13: (tab expansion) in every reachable state no row's rendered bytes hold a
\* tab; each tab of the raw bytes stands as 1..8 spaces that end at a rendered
\* column which is a positive multiple of 8; every other byte is copied
\* unchanged, in order.
TabsExpanded ==
    \A r \in 1..Len(E.row) :
        LET chars == E.row[r].chars
            render == E.row[r].render
        IN  /\ \A j \in 1..Len(render) : render[j] # TAB
            /\ Len(render) = ColumnBehind(chars, Len(chars))
            /\ \A k \in 1..Len(chars) :
                   LET from == ColumnBehind(chars, k - 1)
                       to == ColumnBehind(chars, k)
                   IN  IF chars[k] = TAB
                       THEN /\ to - from \in 1..TAB_STOP_LENGTH
                            /\ to > 0 /\ to % TAB_STOP_LENGTH = 0
                            /\ \A j \in (from + 1)..to : render[j] = SPACE
                       ELSE /\ to = from + 1
                            /\ render[to] = chars[k]

\* A tab typed behind an 'a' stands as seven spaces
TabTyped ==
    \E r \in 1..Len(E.row) :
        /\ E.row[r].chars = << 97, TAB >>
        /\ E.row[r].render = << 97 >> \o Fill(7, SPACE)
        /\ E.dirty > 0

\* C15: after every insert_row and every delete_row, at any valid position, and
\* so after any sequence of tokens, every row's idx is its position in the
\* row array.
RowIndex ==
    /\ Len(E.row) = E.numrows
    /\ \A k \in 1..Len(E.row) : E.row[k].idx = k - 1

\* Enter at the start of the first of three rows and Backspace on the second
\* of four rows: a row was inserted before all rows and a row was deleted
\* before two others
SplitAndJoined ==
    /\ E.numrows = 3
    /\ E.dirty = 3
    /\ Document(E) = snapshot

(***************************************************************************)
(* SpecFind: search sessions on files that are not edited                  *)
(***************************************************************************)
\* The query holds no more than MaxBufFind bytes
MaxBufFind == 2

\* The keys outside the prompt: Ctrl-F, and the arrows that move the cursor
\* and the window to where Ctrl-F is pressed
WalkKeys == {CTRL_F, ARROW_DOWN, ARROW_RIGHT}

\* The keys in the prompt: 'a', 'b', the arrows, Backspace, Enter, Escape
FindKeys == {97, 98, ARROW_LEFT, ARROW_RIGHT, ARROW_UP, ARROW_DOWN, BACKSPACE, CR, ESC}

\* The lines "abc", "abX", "yabZ"
SteppingLines ==
    << << 97, 98, 99 >>, << 97, 98, 88 >>, << 121, 97, 98, 90 >> >>

\* A file "t" holding SteppingLines, or a file "x.c" holding "<TAB>b", "//a"
FindArgs ==
    { [name |-> << 116 >>, exists |-> TRUE,
       bytes |-> << 97, 98, 99, LF, 97, 98, 88, LF, 121, 97, 98, 90, LF >>],
      [name |-> << 120, 46, 99 >>, exists |-> TRUE,
       bytes |-> << TAB, 98, LF, 47, 47, 97, LF >>] }

InitFind == InitWith({<< 4, 3 >>})

NextFind ==
    \/ Start(FindArgs)
    \/ Refresh
    \/ Normal(WalkKeys, {"ok"}) /\ Within(0, MaxBufFind)
    \/ Prompt(FindKeys, {"ok"}) /\ Within(0, MaxBufFind)

SpecFind == InitFind /\ [][NextFind]_vars

\* The rows (0-based) whose render holds the query
MatchRows(e, query) ==
    {r \in 0..(e.numrows - 1) :
         \E k \in 0..Len(At(e.row, r).render) : MatchAt(At(e.row, r).render, k, query)}

\* The least offset at which render holds the query
FirstOccurrence(render, query) ==
    CHOOSE k \in 0..Len(render) :
        /\ MatchAt(render, k, query)
        /\ \A j \in 0..(k - 1) : ~MatchAt(render, j, query)

\* The row of M after cur in increasing order, the least one after the last
NextIn(M, cur) ==
    LET after == {m \in M : m > cur}
        from == IF after # {} THEN after ELSE M
    IN  CHOOSE m \in from : \A n \in from : m <= n

\* The row of M before cur, the greatest one before the first
PrevIn(M, cur) ==
    LET before == {m \in M : m < cur}
        from == IF before # {} THEN before ELSE M
    IN  CHOOSE m \in from : \A n \in from : m >= n

\* The prompt handles the arrow c while there is a current match: the cursor
\* goes to the row to of the matching rows
SteppedTo(c, to) ==
    (mode = "find" /\ F.last_match # -1 /\ editorPrompt(c, {"ok"})) =>
        /\ MatchRows(E, buf) # {}
        /\ E'.cy = to
        /\ E'.cx = editorRowRxToCx(At(E.row, to),
                                   FirstOccurrence(At(E.row, to).render, buf))

\* C18: (search stepping) in the search prompt, with a query held by the
\* render of a non-empty set M of rows and a current match, ArrowDown and
\* ArrowRight move the cursor to the next row of M in increasing order, from
\* the last to the first; ArrowUp and ArrowLeft to the previous row of M, from
\* the first to the last; cx is rx->cx of the first occurrence in that row.
\* With the rows "abc", "abX", "yabZ" and the query "ab", ArrowDown goes from
\* (0, 0) to (1, 0), to (2, 1) and to (0, 0).
SearchStepping ==
    [][ /\ \A c \in {ARROW_DOWN, ARROW_RIGHT} :
               SteppedTo(c, NextIn(MatchRows(E, buf), F.last_match))
        /\ \A c \in {ARROW_UP, ARROW_LEFT} :
               SteppedTo(c, PrevIn(MatchRows(E, buf), F.last_match))
        /\ (/\ mode = "find" /\ Document(E) = SteppingLines /\ buf = << 97, 98 >>
            /\ F.last_match # -1 /\ editorPrompt(ARROW_DOWN, {"ok"})) =>
               << E.cy, E.cx, E'.cy, E'.cx >> \in
                   {<< 0, 0, 1, 0 >>, << 1, 0, 2, 1 >>, << 2, 1, 0, 0 >>} ]_vars

\* The search for "ab" has stepped to the match in "yabZ"
SteppedToLast ==
    /\ mode = "find"
    /\ Document(E) = SteppingLines
    /\ buf = << 97, 98 >>
    /\ F.last_match = 2
    /\ E.cy = 2 /\ E.cx = 1

\* C19: (search cancel) when the search prompt is ended with Escape, cx, cy,
\* rowoff and coloff are what they were when Ctrl-F was pressed, whatever
\* tokens the prompt has handled.
SearchCancel ==
    [][ /\ (mode = "normal" /\ mode' = "find") =>
               saved' = [cx |-> E.cx, cy |-> E.cy, coloff |-> E.coloff, rowoff |-> E.rowoff]
        /\ (mode = "find" /\ mode' = "find") => saved' = saved
        /\ (mode = "find" /\ editorPrompt(ESC, {"ok"})) =>
               /\ mode' = "normal"
               /\ E'.cx = saved.cx /\ E'.cy = saved.cy
               /\ E'.coloff = saved.coloff /\ E'.rowoff = saved.rowoff ]_vars

\* Escape has ended a search that was started in a scrolled window, and a
\* match was current
CancelledAfterMatch ==
    /\ mode = "normal"
    /\ pc = "refresh"
    /\ E.rowoff > 0 /\ E.rowoff < E.numrows
    /\ E.coloff > 0
    /\ E.cy = 2 /\ E.cx = 4
    /\ F.saved_hl_line = 1

\* The highlight of the rows of e with saved_hl copied back
Underlying(e, f) ==
    [r \in 1..Len(e.row) |->
        IF f.saved_hl # NULL /\ r = f.saved_hl_line + 1 THEN f.saved_hl ELSE e.row[r].hl]

\* The rows (1-based) with a cell tagged HL_MATCH
Tagged(e) ==
    {r \in 1..Len(e.row) : \E j \in 1..Len(e.row[r].hl) : e.row[r].hl[j] = HL_MATCH}

\* C20: (search highlighting) at every point of a search session at most one
\* row carries HL_MATCH, on exactly the cells offset..offset+len(query)-1 of the
\* current match; once the prompt has ended, with Enter or Escape, no cell is
\* HL_MATCH and every row's highlight is what it was before Ctrl-F (which the
\* highlight with saved_hl put back is, at every step of the session).
SearchTags ==
    /\ [](/\ mode # "find" => (Tagged(E) = {} /\ F.saved_hl = NULL)
          /\ mode = "find" =>
                /\ Cardinality(Tagged(E)) <= 1
                /\ (F.last_match # -1 /\ buf # << >>) => Tagged(E) = {F.last_match + 1}
                /\ \A r \in Tagged(E) :
                       /\ r = F.last_match + 1
                       /\ {j \in 1..Len(E.row[r].hl) : E.row[r].hl[j] = HL_MATCH}
                             = { FirstOccurrence(E.row[r].render, buf) + k : k \in 1..Len(buf) })
    /\ [][(mode = "find" \/ mode' = "find") => Underlying(E', F') = Underlying(E, F)]_vars

\* Enter has ended a search whose match stood in the comment of the second
\* row: its cells are HL_COMMENT again
CommentRestored ==
    /\ mode = "normal"
    /\ pc = "refresh"
    /\ F.saved_hl_line = 1
    /\ E.cy = 1 /\ E.cx = 2
    /\ E.row[2].hl = Fill(3, HL_COMMENT)

(***************************************************************************)
(* SpecTerm: the process from its first instruction to its end             *)
(***************************************************************************)
\* Editing stops when E.dirty would pass MaxDirtyTerm
MaxDirtyTerm == 1

\* 'a', Ctrl-Q and two arrows
TermKeys == {97, CTRL_Q, ARROW_RIGHT, ARROW_DOWN}

\* No argument, a file "n" that cannot be opened, a file "t" holding "a"
TermArgs ==
    { NoArg,
      [name |-> << 110 >>, exists |-> FALSE, bytes |-> << >>],
      [name |-> << 116 >>, exists |-> TRUE, bytes |-> << 97, LF >>] }

\* Before enableRawMode(); descriptor 2 is the terminal or is not
InitTerm ==
    /\ E = initEditor(3, 3)
    /\ quit_times = CONFIRM_QUIT_TIMES
    /\ F = [last_match |-> -1, direction |-> 1, saved_hl_line |-> 0, saved_hl |-> NULL]
    /\ saved = [cx |-> 0, cy |-> 0, coloff |-> 0, rowoff |-> 0]
    /\ buf = << >>
    /\ mode = "normal"
    /\ pc = "enableRawMode"
    /\ exit_status = -1
    /\ qpresses = 0
    /\ snapshot = << >>
    /\ op = ""
    /\ hist = << >>
    /\ tty \in {TerminalAtStart(b) : b \in BOOLEAN}

NextTerm ==
    \/ TcGetAttr
    \/ AtExitRegister
    \/ TcSetAttr
    \/ GetWindowSize
    \/ Start(TermArgs)
    \/ Refresh
    \/ Normal(TermKeys, {"ok"}) /\ Within(MaxDirtyTerm, 0)
    \/ ReadFails
    \/ AtExit

SpecTerm == InitTerm /\ [][NextTerm]_vars

\* C21: (terminal restore) whenever the process has ended after the raw
\* attributes were applied (Ctrl-Q, or a fatal error of read, of the window
\* size or of the file open), the terminal has the attributes captured at
\* startup again; and the restore is registered before the raw attributes
\* are applied.
TerminalRestored ==
    /\ (pc = "done" /\ tty.applied) => tty.attr = "orig"
    /\ tty.attr = "raw" => tty.atexit = << "disableRawMode" >>

(***************************************************************************)
(* SpecType: typing bytes into an empty document, the tokens recorded      *)
(***************************************************************************)
\* 'h', 'i', 'X' and tab
TypeBytes == {104, 105, 88, TAB}

\* The bytes, Home and ArrowLeft
TypeKeys == TypeBytes \cup {HOME_KEY, ARROW_LEFT}

InitType == InitWith({<< 4, 10 >>})

NextType ==
    \/ Start({NoArg})
    \/ Refresh
    \/ Typed(TypeKeys)

SpecType == InitType /\ [][NextType]_vars

\* The raw bytes of row r (0-based) of e, none for the row behind the last
RawOf(e, r) == IF r < e.numrows THEN At(e.row, r).chars ELSE << >>

\* C22: (character insertion) for a token that is a printable byte or a tab:
\* when cy = numrows an empty row is appended first; the byte is then inserted
\* at index cx of the raw bytes of row cy, the other bytes keeping their order;
\* cx grows by 1, cy is unchanged, the other rows are unchanged.  Typing 'h',
\* 'i', Home, 'X' into an empty document gives the one row "Xhi" and the
\* cursor (0, 1).
CharInserted ==
    /\ [](hist = << 104, 105, HOME_KEY, 88 >> =>
              /\ Document(E) = << << 88, 104, 105 >> >>
              /\ E.cy = 0 /\ E.cx = 1)
    /\ [][\A c \in TypeBytes :
              (mode = "normal" /\ editorProcessKeypress(c, {"ok"})) =>
                  /\ E'.numrows = IF E.cy = E.numrows THEN E.numrows + 1 ELSE E.numrows
                  /\ RawOf(E', E.cy) =
                         SubSeq(RawOf(E, E.cy), 1, E.cx) \o << c >>
                           \o SubSeq(RawOf(E, E.cy), E.cx + 1, Len(RawOf(E, E.cy)))
                  /\ \A r \in 0..(E.numrows - 1) : r # E.cy => RawOf(E', r) = RawOf(E, r)
                  /\ E'.cx = E.cx + 1
                  /\ E'.cy = E.cy]_vars

\* 'h', 'i', Home, 'X' have been typed
TypedXhi ==
    /\ hist = << 104, 105, HOME_KEY, 88 >>
    /\ Document(E) = << << 88, 104, 105 >> >>

(***************************************************************************)
(* SpecEdit: Enter, Backspace, Ctrl-H and the arrows on a two-line file    *)
(***************************************************************************)
\* Editing stops when E.dirty would pass MaxDirtyEdit
MaxDirtyEdit == 2

\* 'x', Enter, Backspace, Ctrl-H and the arrows
EditKeys == {120, CR, BACKSPACE, CTRL_H, ARROW_LEFT, ARROW_RIGHT, ARROW_UP, ARROW_DOWN}

\* The lines "foo", "bar"
FooBar == << << 102, 111, 111 >>, << 98, 97, 114 >> >>

\* No argument, or a file "t" holding FooBar
EditArgs ==
    { NoArg,
      [name |-> << 116 >>, exists |-> TRUE,
       bytes |-> << 102, 111, 111, LF, 98, 97, 114, LF >>] }

InitEdit == InitWith({<< 5, 10 >>})

NextEdit ==
    \/ Start(EditArgs)
    \/ Refresh
    \/ Normal(EditKeys, {"ok"}) /\ Within(MaxDirtyEdit, 0)

SpecEdit == InitEdit /\ [][NextEdit]_vars

\* The raw bytes of the rows of doc, one after the other
RECURSIVE Concatenated(_)
Concatenated(doc) ==
    IF doc = << >> THEN << >> ELSE Head(doc) \o Concatenated(Tail(doc))

\* This step handles the token c in the loop of main()
Handles(c) == mode = "normal" /\ editorProcessKeypress(c, {"ok"})

\* C23: (Enter) at cx = 0 an empty row is inserted before row cy; at cx > 0
\* row cy keeps its first cx bytes and a new row with the remaining bytes is
\* inserted at cy + 1; in both cases the cursor goes to (cy + 1, 0), numrows
\* grows by exactly 1, all other rows are unchanged and the concatenation of
\* the rows' raw bytes is unchanged.
EnterSplits ==
    [][Handles(CR) =>
          /\ E'.numrows = E.numrows + 1
          /\ E'.cy = E.cy + 1 /\ E'.cx = 0
          /\ \A r \in 0..(E.cy - 1) : RawOf(E', r) = RawOf(E, r)
          /\ IF E.cx = 0
             THEN /\ RawOf(E', E.cy) = << >>
                  /\ \A r \in E.cy..(E.numrows - 1) : RawOf(E', r + 1) = RawOf(E, r)
             ELSE /\ RawOf(E', E.cy) = SubSeq(RawOf(E, E.cy), 1, E.cx)
                  /\ RawOf(E', E.cy + 1) =
                         SubSeq(RawOf(E, E.cy), E.cx + 1, Len(RawOf(E, E.cy)))
                  /\ \A r \in (E.cy + 1)..(E.numrows - 1) : RawOf(E', r + 1) = RawOf(E, r)
          /\ Concatenated(Document(E')) = Concatenated(Document(E))]_vars

\* Enter has split "foo" behind its second byte
SplitFoo ==
    /\ Document(E) = << << 102, 111 >>, << 111 >>, << 98, 97, 114 >> >>
    /\ E.cy = 1 /\ E.cx = 0
    /\ E.dirty = 1

\* C24: (Backspace, Ctrl-H) at (cx, cy) = (0, 0) and on the row behind the
\* last nothing changes (rows, cursor, dirty); at cx > 0 the byte at cx - 1 is
\* removed and cx decreases by 1; at cx = 0 with 0 < cy < numrows the raw bytes
\* of row cy are appended to row cy - 1, row cy is deleted and the cursor is
\* (cy - 1, the length row cy - 1 had).  "foo", "bar" with the cursor at (1, 0)
\* give the one row "foobar" and the cursor (0, 3).
BackspaceJoins ==
    [][\A c \in {BACKSPACE, CTRL_H} :
          Handles(c) =>
             /\ IF (E.cx = 0 /\ E.cy = 0) \/ E.cy = E.numrows
                THEN /\ E'.row = E.row /\ E'.numrows = E.numrows
                     /\ E'.cx = E.cx /\ E'.cy = E.cy
                     /\ E'.dirty = E.dirty
                ELSE IF E.cx > 0
                THEN /\ RawOf(E', E.cy) =
                            SubSeq(RawOf(E, E.cy), 1, E.cx - 1)
                              \o SubSeq(RawOf(E, E.cy), E.cx + 1, Len(RawOf(E, E.cy)))
                     /\ \A r \in 0..(E.numrows - 1) : r # E.cy => RawOf(E', r) = RawOf(E, r)
                     /\ E'.numrows = E.numrows
                     /\ E'.cx = E.cx - 1 /\ E'.cy = E.cy
                ELSE /\ RawOf(E', E.cy - 1) = RawOf(E, E.cy - 1) \o RawOf(E, E.cy)
                     /\ \A r \in 0..(E.cy - 2) : RawOf(E', r) = RawOf(E, r)
                     /\ \A r \in (E.cy + 1)..(E.numrows - 1) : RawOf(E', r - 1) = RawOf(E, r)
                     /\ E'.numrows = E.numrows - 1
                     /\ E'.cy = E.cy - 1 /\ E'.cx = Len(RawOf(E, E.cy - 1))
             /\ (Document(E) = FooBar /\ E.cy = 1 /\ E.cx = 0) =>
                    /\ Document(E') = << << 102, 111, 111, 98, 97, 114 >> >>
                    /\ E'.cy = 0 /\ E'.cx = 3]_vars

\* "bar" has been joined to "foo"
JoinedFooBar ==
    /\ snapshot = FooBar
    /\ Document(E) = << << 102, 111, 111, 98, 97, 114 >> >>
    /\ E.cy = 0 /\ E.cx = 3
    /\ E.dirty = 2

\* C25: (arrow keys) Left at cx > 0 decrements cx, at cx = 0 with cy > 0 goes
\* to the end of row cy - 1, at (0, 0) does nothing; Right at cx < len
\* increments cx, at cx = len on a row of the document goes to (cy + 1, 0), on
\* the row behind the last does nothing; Up and Down change cy by one and
\* keep it within 0..numrows; after any move cx is at most the length of the
\* row the cursor is on (0 behind the last row).
ArrowsMove ==
    [][LET len(r) == Len(RawOf(E, r))
           clamp(cy, cx) == << cy, IF cx > len(cy) THEN len(cy) ELSE cx >>
           to == << E'.cy, E'.cx >>
       IN  /\ Handles(ARROW_LEFT) =>
                 to = IF E.cx > 0 THEN << E.cy, E.cx - 1 >>
                      ELSE IF E.cy > 0 THEN << E.cy - 1, len(E.cy - 1) >>
                      ELSE << 0, 0 >>
           /\ Handles(ARROW_RIGHT) =>
                 to = IF E.cy < E.numrows /\ E.cx < len(E.cy) THEN << E.cy, E.cx + 1 >>
                      ELSE IF E.cy < E.numrows THEN << E.cy + 1, 0 >>
                      ELSE << E.cy, E.cx >>
           /\ Handles(ARROW_UP) =>
                 to = clamp(IF E.cy > 0 THEN E.cy - 1 ELSE 0, E.cx)
           /\ Handles(ARROW_DOWN) =>
                 to = clamp(IF E.cy < E.numrows THEN E.cy + 1 ELSE E.numrows, E.cx)
           /\ \A key \in {ARROW_LEFT, ARROW_RIGHT, ARROW_UP, ARROW_DOWN} :
                 Handles(key) =>
                     /\ E'.row = E.row
                     /\ E'.cy \in 0..E.numrows
                     /\ E'.cx <= len(E'.cy)]_vars

\* ArrowUp from the end of "bar" onto the shortened row "fo": cx was cut to 2
CutOnShorterRow ==
    /\ Document(E) = << << 102, 111 >>, << 98, 97, 114 >> >>
    /\ pc = "refresh"
    /\ E.cy = 0 /\ E.cx = 2
    /\ E.rx = 3



(***************************************************************************)
(* SpecDecode: the editor handles the tokens that editorReadKey decodes    *)
(* from a pending input                                                    *)
(***************************************************************************)
MaxInput == 4

\* What one read() of the input may return
InputBytes == {ESC, 91, 79, 72, 53, 126, 97, NOBYTE}

RECURSIVE Inputs(_)
Inputs(n) ==
    IF n = 0 THEN {<< >>}
    ELSE Inputs(n - 1)
         \cup {Append(in, b) : in \in {t \in Inputs(n - 1) : Len(t) = n - 1},
                               b \in InputBytes}

\* The escape sequences that editorReadKey looks at, byte by byte
Sequences3 == {<< ESC, a, b >> : a \in {91, 79}, b \in 65..72}

Sequences4 == {<< ESC, 91, d, t >> : d \in 48..57, t \in {126, 65}}

SingleBytes == {<< b >> : b \in {BACKSPACE, CR, CTRL_H, TAB, 0, 126}}

DecodeInputs ==
    Inputs(MaxInput) \cup Sequences3 \cup Sequences4 \cup SingleBytes
    \cup {s \o << 97 >> : s \in Sequences3 \cup Sequences4}

InitDecode ==
    /\ E = initEditor(4, 10)
    /\ quit_times = CONFIRM_QUIT_TIMES
    /\ F = [last_match |-> -1, direction |-> 1, saved_hl_line |-> 0, saved_hl |-> NULL]
    /\ saved = [cx |-> 0, cy |-> 0, coloff |-> 0, rowoff |-> 0]
    /\ buf = << >>
    /\ mode = "normal"
    /\ pc = "main"
    /\ exit_status = -1
    /\ qpresses = 0
    /\ snapshot = << >>
    /\ op = ""
    /\ hist = << >>
    /\ tty \in {[TerminalRaw(TRUE) EXCEPT !.input = in] : in \in DecodeInputs}

NextDecode == Start({NoArg}) \/ Refresh \/ Decoded({"ok"})

SpecDecode == InitDecode /\ [][NextDecode]_vars


\* The escape sequences that stand for a named key
KeyTable ==
    {[seq |-> << ESC, 91, 65 >>, key |-> ARROW_UP],
     [seq |-> << ESC, 91, 66 >>, key |-> ARROW_DOWN],
     [seq |-> << ESC, 91, 67 >>, key |-> ARROW_RIGHT],
     [seq |-> << ESC, 91, 68 >>, key |-> ARROW_LEFT],
     [seq |-> << ESC, 91, 72 >>, key |-> HOME_KEY],
     [seq |-> << ESC, 79, 72 >>, key |-> HOME_KEY],
     [seq |-> << ESC, 91, 70 >>, key |-> END_KEY],
     [seq |-> << ESC, 79, 70 >>, key |-> END_KEY],
     [seq |-> << ESC, 91, 49, 126 >>, key |-> HOME_KEY],
     [seq |-> << ESC, 91, 55, 126 >>, key |-> HOME_KEY],
     [seq |-> << ESC, 91, 51, 126 >>, key |-> DEL_KEY],
     [seq |-> << ESC, 91, 52, 126 >>, key |-> END_KEY],
     [seq |-> << ESC, 91, 56, 126 >>, key |-> END_KEY],
     [seq |-> << ESC, 91, 53, 126 >>, key |-> PAGE_UP],
     [seq |-> << ESC, 91, 54, 126 >>, key |-> PAGE_DOWN]}

\* The input from its first byte on
RECURSIVE FromFirstByte(_)
FromFirstByte(in) == IF Head(in) = NOBYTE THEN FromFirstByte(Tail(in)) ELSE in

StartsWith(in, seq) == Len(in) >= Len(seq) /\ SubSeq(in, 1, Len(seq)) = seq

\* C26: a call of the key decoder consumes at least one byte of the input,
\* leaves the rest of the input as it was and yields exactly one token: a
\* first byte other than ESC is the token itself (0x7F is Backspace and 0x0D
\* is Enter); ESC [ A/B/C/D are ArrowUp/ArrowDown/ArrowRight/ArrowLeft,
\* ESC [ H and ESC O H are Home, ESC [ F and ESC O F are End, ESC [ d ~ is
\* Home for d = 1 or 7, Delete for 3, End for 4 or 8, PageUp for 5 and
\* PageDown for 6; an ESC followed by a timeout on one of the next two
\* bytes, or by any other sequence, is Escape.
KeyDecoder ==
    [][(pc = "readkey" /\ tty'.input # tty.input) =>
         LET in == FromFirstByte(tty.input)
             used == Len(tty.input) - Len(tty'.input)
         IN  /\ BACKSPACE = 127 /\ CR = 13
             /\ used >= 1 + Len(tty.input) - Len(in)
             /\ tty'.input = Drop(tty.input, used)
             /\ Len(hist') = Len(hist) + 1
             /\ SubSeq(hist', 1, Len(hist)) = hist
             /\ hist'[Len(hist')] =
                    IF Head(in) # ESC THEN Head(in)
                    ELSE IF \E t \in KeyTable : StartsWith(in, t.seq)
                    THEN (CHOOSE t \in KeyTable : StartsWith(in, t.seq)).key
                    ELSE ESC]_vars

\* ESC [ 5 ~ was decoded as PageUp, and the byte behind it as itself
DecodedPageUp == hist = << PAGE_UP, 97 >> /\ tty.input = << >>


(***************************************************************************)
(* SpecMode: the main loop, the save-as prompt and the search prompt       *)
(***************************************************************************)
MaxDirtyMode == 0
MaxBufMode == 1
MaxFileMode == 3

\* 'a', Enter, Backspace, down; Ctrl-F, Ctrl-Q, Ctrl-S; Escape
ModeKeys == {97, CR, BACKSPACE, ARROW_DOWN, CTRL_F, CTRL_Q, CTRL_S, ESC}

\* No argument, or a file "t" of two lines "a", "a"
ModeArgs == { NoArg,
              [name |-> << 116 >>, exists |-> TRUE, bytes |-> << 97, LF, 97, LF >>] }

InitMode == InitWith({<< 3, 3 >>})

NextMode ==
    \/ Start(ModeArgs)
    \/ Refresh
    \/ Normal(ModeKeys, {"ok"}) /\ Within(MaxDirtyMode, MaxBufMode) /\ Fits(MaxFileMode)
    \/ Prompt(ModeKeys, {"ok"}) /\ Within(MaxDirtyMode, MaxBufMode) /\ Fits(MaxFileMode)

SpecMode == InitMode /\ [][NextMode]_vars

\* C27: (mode state machine) the editor starts in normal mode; the save-as
\* prompt is entered only by a Ctrl-S with no filename and the search prompt
\* only by a Ctrl-F; a prompt ends only with Escape (no result: no filename is
\* set) or with Enter on a non-empty buffer (the result is the buffer: it
\* becomes the filename); every other token, Enter on an empty buffer and
\* Ctrl-Q included, keeps the prompt and does not end the process; and each
\* token read in the search prompt is given to the callback exactly once.
ModeMachine ==
    /\ mode = "normal"
    /\ [][/\ (mode = "normal" /\ mode' = "save") =>
                (E.filename = NULL /\ editorProcessKeypress(CTRL_S, {"ok"}))
          /\ (mode = "normal" /\ mode' = "find") => editorProcessKeypress(CTRL_F, {"ok"})
          /\ (mode # "normal" /\ mode' = "normal") =>
                (editorPrompt(ESC, {"ok"}) \/ (buf # << >> /\ editorPrompt(CR, {"ok"})))
          /\ mode # "normal" => (pc' # "exit" /\ exit_status' = exit_status)
          /\ \A c \in ModeKeys :
                (mode # "normal" /\ editorPrompt(c, {"ok"})) =>
                    /\ IF c = ESC
                       THEN mode' = "normal" /\ (mode = "save" => E'.filename = NULL)
                       ELSE IF c = CR /\ buf # << >>
                       THEN mode' = "normal" /\ (mode = "save" => E'.filename = buf)
                       ELSE mode' = mode
                    /\ mode = "find" =>
                         F' = editorFindCallback([E |-> E, F |-> F],
                                                 PromptBuffer(buf, c), c).F
                    /\ (mode = "find" /\ mode' = "find") =>
                         E' = editorFindCallback([E |-> E, F |-> F],
                                                 PromptBuffer(buf, c), c).E]_vars

\* The empty document was saved under the name typed into the prompt
SavedAsTyped ==
    /\ mode = "normal"
    /\ op = "saved"
    /\ E.filename = << 97 >>
    /\ E.numrows = 0

\* The search prompt stepped from the first match to the second
SteppedInPrompt == mode = "find" /\ buf = << 97 >> /\ F.last_match = 1 /\ F.direction = 1


(***************************************************************************)
(* SpecFail: saves whose open(), ftruncate() or write() may fail           *)
(***************************************************************************)
MaxDirtyFail == 1
MaxBufFail == 1
MaxFileFail == 3

\* 'a', Enter, down; Ctrl-Q, Ctrl-S; Escape
FailKeys == {97, CR, ARROW_DOWN, CTRL_Q, CTRL_S, ESC}

\* No argument, or a file "t" of one line "a"
FailArgs == { NoArg, [name |-> << 116 >>, exists |-> TRUE, bytes |-> << 97, LF >>] }

\* A save goes through, or one of its system calls fails
FailIos == {"ok", "open", "ftruncate", "write"}

InitFail == InitWith({<< 3, 3 >>})

NextFail ==
    \/ Start(FailArgs)
    \/ Refresh
    \/ Normal(FailKeys, FailIos) /\ Within(MaxDirtyFail, MaxBufFail) /\ Fits(MaxFileFail)
    \/ Prompt(FailKeys, FailIos) /\ Within(MaxDirtyFail, MaxBufFail) /\ Fits(MaxFileFail)

SpecFail == InitFail /\ [][NextFail]_vars

\* C28: (unsuccessful save) when the save-as prompt is cancelled, or open,
\* ftruncate or write fails in a save (by Ctrl-S with a filename, or by Enter
\* in the save-as prompt), every row's raw bytes, the row count and dirty are
\* unchanged, the message "Save aborted" resp. "Can't save! I/O error: ..."
\* is posted, the process does not end and the editor is in normal mode;
\* after a cancelled prompt there is still no filename.
UnsuccessfulSave ==
    [][LET kept == /\ E'.numrows = E.numrows
                   /\ \A r \in 0..(E.numrows - 1) : RawOf(E', r) = RawOf(E, r)
                   /\ E'.dirty = E.dirty
                   /\ pc' = "refresh"
                   /\ exit_status' = exit_status
                   /\ mode' = "normal"
       IN  /\ (mode = "save" /\ editorPrompt(ESC, FailIos)) =>
                 /\ kept
                 /\ E'.statusmsg = << "Save aborted" >>
                 /\ E'.filename = NULL
           /\ \A io \in FailIos \ {"ok"} :
                 (\/ mode = "normal" /\ E.filename # NULL
                        /\ editorProcessKeypress(CTRL_S, {io})
                  \/ mode = "save" /\ buf # << >> /\ editorPrompt(CR, {io})) =>
                     /\ kept
                     /\ E'.statusmsg = << "Can't save! I/O error", io >>]_vars

\* The changed document was to be saved under the name typed into the prompt,
\* and ftruncate() failed
SaveFailed ==
    /\ mode = "normal"
    /\ E.statusmsg = << "Can't save! I/O error", "ftruncate" >>
    /\ E.filename = << 97 >>
    /\ E.dirty = 1
    /\ E.numrows = 1


(***************************************************************************)
(* SpecReport: searches that find nothing, Enter on an empty prompt        *)
(***************************************************************************)
MaxBufReport == 2

\* 'a', 'b', Enter, down; Ctrl-F, Ctrl-S; Escape
ReportKeys == {97, 98, CR, ARROW_DOWN, CTRL_F, CTRL_S, ESC}

\* No argument, or a file "t" of one line "a"
ReportArgs == { NoArg, [name |-> << 116 >>, exists |-> TRUE, bytes |-> << 97, LF >>] }

InitReport == InitWith({<< 3, 3 >>})

NextReport ==
    \/ Start(ReportArgs)
    \/ Refresh
    \/ Normal(ReportKeys, {"ok"}) /\ Within(0, MaxBufReport)
    \/ Prompt(ReportKeys, {"ok"}) /\ Within(0, MaxBufReport)

SpecReport == InitReport /\ [][NextReport]_vars

\* The search prompt handles c, and no row holds the query
SearchFindsNothing(c) ==
    /\ mode = "find"
    /\ ~PromptReturns(buf, c)
    /\ MatchRows(E, PromptBuffer(buf, c)) = {}
    /\ editorPrompt(c, {"ok"})

\* The save-as prompt handles Enter on its empty buffer
EnterOnEmptySaveAs == mode = "save" /\ buf = << >> /\ editorPrompt(CR, {"ok"})

\* C29 as stated: (recoverable errors are reported) when a search step finds
\* no row that holds the query, and when Enter is pressed on the empty
\* save-as prompt, a status-bar message for the condition is posted (a new
\* message, other than the prompt itself) and editing continues.
ErrorsReported ==
    [][((\E c \in ReportKeys : SearchFindsNothing(c)) \/ EnterOnEmptySaveAs) =>
         /\ E'.statusmsg # E.statusmsg
         /\ E'.statusmsg # PromptMessage(mode', buf')
         /\ pc' = "refresh"]_vars

\* C29, amended: a search step that finds no row holding the query, and
\* Enter on the empty save-as prompt, post no message: the status message,
\* the cursor, the offsets and the rows' bytes stay as they are, the prompt
\* stays open (Enter on the empty buffer changes nothing at all) and the
\* process goes on.
ErrorsSilent ==
    [][/\ \A c \in ReportKeys :
             SearchFindsNothing(c) =>
                 /\ E'.statusmsg = E.statusmsg
                 /\ E'.cx = E.cx /\ E'.cy = E.cy
                 /\ E'.rowoff = E.rowoff /\ E'.coloff = E.coloff
                 /\ Document(E') = Document(E)
                 /\ mode' = "find"
                 /\ pc' = "refresh"
                 /\ exit_status' = exit_status
       /\ EnterOnEmptySaveAs =>
             /\ E' = E
             /\ buf' = << >>
             /\ mode' = "save"
             /\ pc' = "refresh"
             /\ exit_status' = exit_status]_vars

\* 'b' was searched in the document "a": the bar still holds the prompt as it
\* was posted before the key
SearchedInVain ==
    /\ pc = "refresh"
    /\ mode = "find"
    /\ buf = << 98 >>
    /\ E.numrows = 1
    /\ E.statusmsg = PromptMessage("find", << >>)


(***************************************************************************)
(* SpecRange: the row operations called with any index, in range or not    *)
(***************************************************************************)
MaxDirtyRange == 2
MaxAt == 3

\* The indices the operations are called with
RangeAts == (0 - 1)..MaxAt

\* No argument, or a file "t" of two lines "ab", "c"
RangeArgs == { NoArg,
               [name |-> << 116 >>, exists |-> TRUE, bytes |-> << 97, 98, LF, 99, LF >>] }

InitRange == InitWith({<< 3, 3 >>})

\* What a call of a row operation leaves alone
RowCall(name) ==
    /\ pc = "readkey"
    /\ mode = "normal"
    /\ E'.dirty <= MaxDirtyRange
    /\ op' = name
    /\ UNCHANGED << quit_times, F, saved, buf, mode, pc, exit_status, qpresses,
                    snapshot, hist, tty >>

CallInsertRow(at, s) == E' = editorInsertRow(E, at, s) /\ RowCall("editorInsertRow")

CallDelRow(at) == E' = editorDelRow(E, at) /\ RowCall("editorDelRow")

CallRowDelChar(r, at) == E' = editorRowDelChar(E, r, at) /\ RowCall("editorRowDelChar")

NextRange ==
    \/ Start(RangeArgs)
    \/ Refresh
    \/ \E at \in RangeAts, s \in {<< >>, << 97 >>} : CallInsertRow(at, s)
    \/ \E at \in RangeAts : CallDelRow(at)
    \/ \E r \in 0..(E.numrows - 1), at \in RangeAts : CallRowDelChar(r, at)

SpecRange == InitRange /\ [][NextRange]_vars

\* C30: (silent out-of-range contract) editorInsertRow with at outside
\* [0, numrows], editorDelRow with at outside [0, numrows) and editorRowDelChar
\* with at outside [0, size of the row) leave the whole editor state as it is
\* (rows with their idx, render and hl, numrows, dirty, the cursor and the
\* message) and signal no error: the process goes on with no exit status.
OutOfRangeSilent ==
    [][\A at \in RangeAts :
         LET silent == E' = E /\ pc' = pc /\ exit_status' = exit_status
         IN  /\ ((at < 0 \/ at > E.numrows)
                   /\ \E s \in {<< >>, << 97 >>} : CallInsertRow(at, s)) => silent
             /\ ((at < 0 \/ at >= E.numrows) /\ CallDelRow(at)) => silent
             /\ \A r \in 0..(E.numrows - 1) :
                   ((at < 0 \/ at >= Len(RawOf(E, r))) /\ CallRowDelChar(r, at)) => silent]_vars

\* editorDelRow was called on the loaded document and deleted nothing
DelRowOutOfRange ==
    /\ op = "editorDelRow"
    /\ E.numrows = 2
    /\ E.dirty = 0
    /\ E.filename = << 116 >>


(***************************************************************************)
(* Splitting and joining rows of a C file                                  *)
(***************************************************************************)
\* Row i (0-based) of e holds what the highlighter computes for it from the
\* stored hl_open_comment of row i - 1
RowConsistent(e, i) ==
    /\ At(e.row, i).hl = Rescan(e, i).hl
    /\ At(e.row, i).hl_open_comment = Rescan(e, i).in_comment

\* C31: (Enter that splits a row, C syntax selected) from a document whose
\* rows are all consistently highlighted, after Enter at cx > 0 on row cy every
\* row behind the new row cy + 1, up to and including the last row, has hl and
\* hl_open_comment consistent with the hl_open_comment of the row before it.
SplitKeepsHighlight ==
    [][(/\ E.syntax # NOSYNTAX
        /\ E.cy < E.numrows
        /\ E.cx > 0
        /\ \A i \in 0..(E.numrows - 1) : RowConsistent(E, i)
        /\ Handles(CR)) =>
           \A i \in (E.cy + 2)..(E'.numrows - 1) : RowConsistent(E', i)]_vars


(***************************************************************************)
(* SpecJoin: Backspace and Delete in a C file whose rows join to a "//"    *)
(***************************************************************************)
MaxDirtyJoin == 2

\* Backspace, Delete and the arrows
JoinKeys == {BACKSPACE, DEL_KEY, ARROW_LEFT, ARROW_RIGHT, ARROW_UP, ARROW_DOWN}

\* A file "x.c" holding "/", "/*", "y"
JoinArgs ==
    { [name |-> << 120, 46, 99 >>, exists |-> TRUE,
       bytes |-> << 47, LF, 47, 42, LF, 121, LF >>] }

InitJoin == InitWith({<< 5, 10 >>})

NextJoin ==
    \/ Start(JoinArgs)
    \/ Refresh
    \/ Normal(JoinKeys, {"ok"}) /\ Within(MaxDirtyJoin, 0)

SpecJoin == InitJoin /\ [][NextJoin]_vars

\* C32: (Backspace that joins two rows, C syntax selected) from a document
\* whose rows are all consistently highlighted, after Backspace at cx = 0 on
\* row cy with 0 < cy < numrows, the row that followed the deleted row has hl
\* and hl_open_comment consistent with the hl_open_comment of the merged row.
JoinKeepsHighlight ==
    [][(/\ E.syntax # NOSYNTAX
        /\ E.cx = 0
        /\ 0 < E.cy
        /\ E.cy + 1 < E.numrows
        /\ \A i \in 0..(E.numrows - 1) : RowConsistent(E, i)
        /\ Handles(BACKSPACE)) =>
           RowConsistent(E', E.cy)]_vars


\* C33: (Delete) Delete removes what is right of the cursor and never moves
\* the cursor: with cx below the length of row cy the byte at cx is removed;
\* at the end of a row that is not the last one the next row is joined onto
\* it; with nothing to the right (end of the last row, or the tail row) the
\* rows and dirty are unchanged; (cx, cy) is unchanged in every case.
DeleteKeepsCursor ==
    [][Handles(DEL_KEY) =>
         LET raw == RawOf(E, E.cy)
         IN  /\ E'.cx = E.cx
             /\ E'.cy = E.cy
             /\ IF E.cy < E.numrows /\ E.cx < Len(raw)
                THEN Document(E') =
                         [Document(E) EXCEPT ![E.cy + 1] =
                              SubSeq(raw, 1, E.cx) \o SubSeq(raw, E.cx + 2, Len(raw))]
                ELSE IF E.cy + 1 < E.numrows
                THEN Document(E') =
                         [k \in 1..(E.numrows - 1) |->
                              IF k <= E.cy THEN Document(E)[k]
                              ELSE IF k = E.cy + 1 THEN raw \o RawOf(E, E.cy + 1)
                              ELSE Document(E)[k + 1]]
                ELSE Document(E') = Document(E) /\ E'.dirty = E.dirty]_vars


(***************************************************************************)
(* SpecScan: C files of slashes, stars and quotes                           *)
(***************************************************************************)
MaxScanLen == 3
MaxDirtyScan == 1

\* '/', '*', '"', and the end of a line
ScanBytes == {47, 42, DQUOTE, LF}

RECURSIVE ScanFiles(_)
ScanFiles(n) ==
    IF n = 0 THEN {<< >>}
    ELSE ScanFiles(n - 1)
         \cup {Append(f, b) : f \in {g \in ScanFiles(n - 1) : Len(g) = n - 1},
                              b \in ScanBytes}

\* Every file "x.c" of up to MaxScanLen of these bytes
ScanArgs ==
    { [name |-> << 120, 46, 99 >>, exists |-> TRUE, bytes |-> f] :
          f \in ScanFiles(MaxScanLen) }

\* '/', '"', right and down
ScanKeys == {47, DQUOTE, ARROW_RIGHT, ARROW_DOWN}

InitScan == InitWith({<< 4, 10 >>})

NextScan ==
    \/ Start(ScanArgs)
    \/ Refresh
    \/ Normal(ScanKeys, {"ok"}) /\ Within(MaxDirtyScan, 0)

SpecScan == InitScan /\ [][NextScan]_vars

\* The scan of the precedence rules alone, from position i of render on:
\* tags holds HL_STRING, HL_COMMENT or HL_MLCOMMENT where a rule gives the tag
\* and HL_NORMAL elsewhere; str is the open quote or 0, com whether a
\* multi-line comment is open
RECURSIVE Precedence(_, _, _, _, _)
Precedence(render, i, str, com, tags) ==
    LET n == Len(render)
        two(a, b) == i + 1 < n /\ At(render, i) = a /\ At(render, i + 1) = b
        tag(k, t) == [j \in 1..n |-> IF j > i /\ j <= i + k THEN t ELSE tags[j]]
    IN  IF i >= n THEN [tags |-> tags, in_comment |-> com]
        ELSE IF str # 0
        THEN IF At(render, i) = BACKSLASH /\ i + 1 < n
             THEN Precedence(render, i + 2, str, com, tag(2, HL_STRING))
             ELSE Precedence(render, i + 1, IF At(render, i) = str THEN 0 ELSE str, com,
                             tag(1, HL_STRING))
        ELSE IF com
        THEN IF two(42, 47)
             THEN Precedence(render, i + 2, 0, FALSE, tag(2, HL_MLCOMMENT))
             ELSE Precedence(render, i + 1, 0, TRUE, tag(1, HL_MLCOMMENT))
        ELSE IF two(47, 47) THEN [tags |-> tag(n - i, HL_COMMENT), in_comment |-> FALSE]
        ELSE IF two(47, 42) THEN Precedence(render, i + 2, 0, TRUE, tag(2, HL_MLCOMMENT))
        ELSE IF At(render, i) \in {DQUOTE, SQUOTE}
        THEN Precedence(render, i + 1, At(render, i), FALSE, tag(1, HL_STRING))
        ELSE Precedence(render, i + 1, 0, FALSE, tags)

\* C34: (highlighter precedence, C syntax) a comment delimiter inside a string
\* literal is tagged String and leaves in_comment alone; "//" and quotes
\* inside a multi-line comment are tagged MultilineComment; "//" outside
\* string and comment tags the rest of the row Comment and leaves in_comment
\* false; so the String, Comment and MultilineComment tags of every row, and
\* its hl_open_comment, are those of the left-to-right scan under these
\* rules started from the hl_open_comment of the row before it.
HighlighterPrecedence ==
    E.syntax # NOSYNTAX =>
        \A r \in 0..(E.numrows - 1) :
            LET row == At(E.row, r)
                ref == Precedence(row.render, 0, 0,
                                  r > 0 /\ At(E.row, r - 1).hl_open_comment,
                                  Fill(Len(row.render), HL_NORMAL))
                marks == {HL_STRING, HL_COMMENT, HL_MLCOMMENT}
            IN  /\ row.hl_open_comment = ref.in_comment
                /\ \A k \in 1..Len(row.render) :
                       IF ref.tags[k] \in marks THEN row.hl[k] = ref.tags[k]
                       ELSE row.hl[k] \notin marks

\* The closing quote was typed behind "/* of a one-row file: the row is one
\* string and leaves no comment open
StringHoldsComment ==
    /\ E.numrows = 1
    /\ E.dirty = 1
    /\ At(E.row, 0).chars = << DQUOTE, 47, 42, DQUOTE >>
    /\ At(E.row, 0).hl = Fill(4, HL_STRING)
    /\ ~At(E.row, 0).hl_open_comment


(***************************************************************************)
(* The search after an edit of the query                                   *)
(***************************************************************************)
\* C35: (search restart) when the search prompt handles a typed byte or a
\* Backspace and some row's render holds the query, the cursor goes to the
\* lowest such row, at rx->cx of the first occurrence in it, wherever the
\* cursor and the previous match were; when no row holds the query the
\* editor state is what the restore of the saved highlight left.
SearchRestart ==
    [][\A c \in {97, 98, BACKSPACE} :
         (mode = "find" /\ editorPrompt(c, {"ok"})) =>
             LET query == PromptBuffer(buf, c)
                 M == MatchRows(E, query)
                 restored == IF F.saved_hl # NULL
                             THEN [E EXCEPT !.row[F.saved_hl_line + 1].hl = F.saved_hl]
                             ELSE E
             IN  IF M # {}
                 THEN LET to == CHOOSE m \in M : \A n \in M : m <= n
                      IN  /\ E'.cy = to
                          /\ E'.cx = editorRowRxToCx(At(E.row, to),
                                         FirstOccurrence(At(E.row, to).render, query))
                 ELSE E' = restored]_vars

\* The search was started with the cursor on the row "yabZ"; the typed query
\* "ab" has put the cursor on the row "abc"
RestartedAtTop ==
    /\ mode = "find"
    /\ pc = "refresh"
    /\ Document(E) = SteppingLines
    /\ saved.cy = 2
    /\ buf = << 97, 98 >>
    /\ F.last_match = 0
    /\ E.cy = 0 /\ E.cx = 0


(***************************************************************************)
(* SpecPage: paging through a file longer than the window                  *)
(***************************************************************************)
\* The paging keys, the arrows and End
PageKeys == {PAGE_UP, PAGE_DOWN, ARROW_LEFT, ARROW_RIGHT, ARROW_UP, ARROW_DOWN, END_KEY}

\* A file "t" of seven lines: "ab", "", "abc", "a", "", "ab", "a"
PageArgs ==
    { [name |-> << 116 >>, exists |-> TRUE,
       bytes |-> << 97, 98, LF, LF, 97, 98, 99, LF, 97, LF, LF, 97, 98, LF, 97, LF >>] }

\* Windows of two and of three text rows
InitPage == InitWith({<< 4, 10 >>, << 5, 10 >>})

NextPage == Start(PageArgs) \/ Refresh \/ Normal(PageKeys, {"ok"})

SpecPage == InitPage /\ [][NextPage]_vars

\* k moves by the arrow key from e, as the handler of the paging keys makes them
RECURSIVE ArrowMoves(_, _, _)
ArrowMoves(e, key, k) ==
    IF k = 0 THEN e ELSE ArrowMoves(editorMoveCursor(e, key), key, k - 1)

\* C36: (paging) PageDown puts cy on min(numrows, rowoff + screenrows - 1) and
\* makes screenrows ArrowDown moves, PageUp puts cy on rowoff and makes
\* screenrows ArrowUp moves; afterwards 0 <= cy <= numrows and cx is within the
\* row the cursor is on; at the next refresh rowoff is screenrows more (less)
\* than it was, or as far as the end (the start) of the document allows; the
\* rows and dirty are unchanged.
Paging ==
    [][\A c \in {PAGE_UP, PAGE_DOWN} :
         Handles(c) =>
             LET h == E.screenrows
                 bottom == IF E.rowoff + h - 1 > E.numrows THEN E.numrows
                           ELSE E.rowoff + h - 1
                 next == editorScroll(E').rowoff
             IN  /\ E' = IF c = PAGE_DOWN
                         THEN ArrowMoves([E EXCEPT !.cy = bottom], ARROW_DOWN, h)
                         ELSE ArrowMoves([E EXCEPT !.cy = E.rowoff], ARROW_UP, h)
                 /\ 0 <= E'.cy /\ E'.cy <= E.numrows
                 /\ 0 <= E'.cx /\ E'.cx <= Len(RawOf(E', E'.cy))
                 /\ IF c = PAGE_DOWN
                    THEN IF E.rowoff + 2 * h - 1 <= E.numrows
                         THEN next = E.rowoff + h /\ E'.cy = E.rowoff + 2 * h - 1
                         ELSE E'.cy = E.numrows /\ next >= E.rowoff /\ next <= E.rowoff + h
                    ELSE IF E.rowoff >= h
                         THEN next = E.rowoff - h /\ E'.cy = next
                         ELSE next = 0 /\ E'.cy = 0
                 /\ Document(E') = Document(E)
                 /\ E'.numrows = E.numrows
                 /\ E'.dirty = E.dirty]_vars

\* Two PageDown in a window of two rows: the window is four rows further
PagedTwice == pc = "readkey" /\ E.screenrows = 2 /\ E.rowoff = 4 /\ E.cy = 5 /\ E.cx = 0


(***************************************************************************)
(* SpecFrame: the keys that do not edit, in the main loop and the prompts  *)
(***************************************************************************)
MaxDirtyFrame == 1
MaxBufFrame == 1
MaxFileFrame == 1

\* The keys that move or are absorbed
MovingKeys == {ARROW_LEFT, ARROW_RIGHT, ARROW_UP, ARROW_DOWN, HOME_KEY, END_KEY,
               PAGE_UP, PAGE_DOWN, CTRL_L, ESC}

\* Those, 'a', Enter, Ctrl-F, Ctrl-Q and Ctrl-S
FrameKeys == MovingKeys \cup {97, CR, CTRL_F, CTRL_Q, CTRL_S}

\* The tokens given to the prompts
FramePromptKeys == {97, CR, ESC, BACKSPACE, ARROW_DOWN, ARROW_LEFT, CTRL_Q}

\* No argument, or a file "t" of two lines: "<TAB>a", "a"
FrameArgs == { NoArg,
               [name |-> << 116 >>, exists |-> TRUE, bytes |-> << TAB, 97, LF, 97, LF >>] }

InitFrame == InitWith({<< 3, 3 >>})

NextFrame ==
    \/ Start(FrameArgs)
    \/ Refresh
    \/ Normal(FrameKeys, {"ok"}) /\ Within(MaxDirtyFrame, MaxBufFrame) /\ Fits(MaxFileFrame)
    \/ Prompt(FramePromptKeys, {"ok"}) /\ Within(MaxDirtyFrame, MaxBufFrame) /\ Fits(MaxFileFrame)

SpecFrame == InitFrame /\ [][NextFrame]_vars

OffsetsNonNegative == pc = "readkey" => (E.rowoff >= 0 /\ E.coloff >= 0)

(***************************************************************************)
(* SpecUndo: a recorded script of keys on a two-line file                  *)
(***************************************************************************)
\* 'x', Tab, Enter, Backspace, ArrowRight, ArrowDown
UndoKeys == {120, TAB, CR, BACKSPACE, ARROW_RIGHT, ARROW_DOWN}

\* The file "t" holding the lines "ab" and "c"
UndoFile == [name |-> << 116 >>, exists |-> TRUE, bytes |-> << 97, 98, LF, 99, LF >>]

InitUndo == InitWith({<< 5, 10 >>})

NextUndo ==
    \/ Start({UndoFile})
    \/ Refresh
    \/ Typed(UndoKeys)

SpecUndo == InitUndo /\ [][NextUndo]_vars

\* The editor after the keys of h have been handled one after the other,
\* starting from e
RECURSIVE Replay(_, _)
Replay(e, h) == IF h = << >> THEN e ELSE Replay(EditKey(e, Head(h)), Tail(h))

\* The editor when main() has opened UndoFile
UndoLoaded == editorOpen(initEditor(5, 10), UndoFile.name, UndoFile.bytes)

\* C39: (undo by Backspace) when the cursor is on a real row (cy < numrows),
\* Enter or one typed byte followed at once by Backspace leaves every row's
\* raw bytes, numrows and the cursor (cx, cy) as they were before the two
\* keys, and dirty strictly greater than before.
UndoByBackspace ==
    LET n == Len(hist)
    IN  (/\ n >= 2
         /\ hist[n] = BACKSPACE
         /\ hist[n - 1] \in {CR, TAB, 120}) =>
            LET Before(h) == Replay(UndoLoaded, h)
                h0 == SubSeq(hist, 1, n - 2)
            IN  Before(h0).cy < Before(h0).numrows =>
                    /\ Document(E) = Document(Before(h0))
                    /\ E.numrows = Before(h0).numrows
                    /\ E.cx = Before(h0).cx
                    /\ E.cy = Before(h0).cy
                    /\ E.dirty > Before(h0).dirty

\* Enter inside "ab" and then Backspace: the two lines are back, the cursor
\* is again after the 'a'
SplitUndone ==
    /\ hist = << ARROW_RIGHT, CR, BACKSPACE >>
    /\ Document(E) = << << 97, 98 >>, << 99 >> >>
    /\ E.cx = 1
    /\ E.cy = 0
    /\ E.dirty = 3


(***************************************************************************)
(* SpecFirstRow: a recorded script of deleting keys, from no file or from  *)
(* a one-line file                                                         *)
(***************************************************************************)
\* 'x', Enter, Backspace, Delete, ArrowUp, ArrowLeft
FirstRowKeys == {120, CR, BACKSPACE, DEL_KEY, ARROW_UP, ARROW_LEFT}

\* No argument, or a file "t" holding the line "a"
FirstRowArgs ==
    { NoArg,
      [name |-> << 116 >>, exists |-> TRUE, bytes |-> << 97, LF >>] }

InitFirstRow == InitWith({<< 5, 10 >>})

NextFirstRow ==
    \/ Start(FirstRowArgs)
    \/ Refresh
    \/ Typed(FirstRowKeys)

SpecFirstRow == InitFirstRow /\ [][NextFirstRow]_vars

\* C40: (row 0 is never deleted) once the document has at least one row,
\* after a load of a non-empty file or the first inserted byte or Enter, no
\* step of the editor leaves it with no row: numrows >= 1 in every later
\* state, so the frame never takes the branch of the empty document that
\* draws the welcome banner.
FirstRowStays == [][E.numrows >= 1 => E'.numrows >= 1]_vars

\* 'x' has been typed into the empty document and deleted again; a Backspace
\* at (0, 0) and a Delete on the empty row 0 have followed
EmptiedNotDeleted ==
    /\ hist = << 120, BACKSPACE, BACKSPACE, DEL_KEY >>
    /\ E.filename = NULL
    /\ E.numrows = 1
    /\ Document(E) = << << >> >>


=============================================================================
